---- MODULE Spec2Model ----
(***************************************************************************)
(* school-file-classifier: the file move / undo subsystem (src/file_ops.py) *)
(* over an explicit filesystem, and the download scan (src/classifier.py,   *)
(* src/platforms) over a browser history, a configuration and a disk.       *)
(*                                                                          *)
(* A file name is a sequence of characters, a path a sequence of names      *)
(* (its components below the root).  The filesystem is a record             *)
(*   dirs  : the set of paths that are directories                          *)
(*   files : a function from the paths that are regular files to their data *)
(* The data of a file is a number that identifies its content.              *)
(***************************************************************************)
EXTENDS Integers, Sequences, FiniteSets, TLC

VARIABLES
    fs,          \* the filesystem
    undo_stack,  \* FileOps._undo_stack: a sequence of batches of MoveRecords
    tags,        \* for each batch on the stack, the number of the push that put it there
    last,        \* the last call: its arguments and its outcome
    nPush,       \* number of batches pushed so far
    nPairs,      \* work given to move_files so far (pairs; an empty batch counts 1)
    nExt,        \* number of external filesystem changes so far
    history,     \* the browser's History database: downloads, urls, visits
    config,      \* the configuration: download_dir, platforms, courses
    disk,        \* what the scan finds on disk: files, symbolic links, the runtime
    out,         \* the last call on the classifier side: its arguments and outcome
    ui           \* the window: its file list, its scan workers, its pending events

fileVars == <<fs, undo_stack, tags, last, nPush, nPairs, nExt>>
scanVars == <<history, config, disk, out, ui>>
vars == <<fs, undo_stack, tags, last, nPush, nPairs, nExt, history, config, disk, out, ui>>

----------------------------------------------------------------------------
\* Bounds of the model

MaxBatch == 2
MaxPairs == 2
MaxExt == 1

----------------------------------------------------------------------------
\* Names and paths

Digit == <<"0", "1", "2", "3", "4", "5", "6", "7", "8", "9">>

RECURSIVE Dec(_)
\* str(counter) inside the f-string of _unique_name
Dec(n) ==
    IF n < 10 THEN <<Digit[n + 1]>>
    ELSE Dec(n \div 10) \o <<Digit[(n % 10) + 1]>>

\* str.rfind("."): the last index of a dot, 0 when there is none
RFindDot(name) ==
    LET dots == {i \in 1..Len(name) : name[i] = "."}
    IN IF dots = {} THEN 0 ELSE CHOOSE i \in dots : \A j \in dots : j <= i

\* Path.suffix: from the last dot, unless the dot starts or ends the name
Suffix(name) ==
    LET i == RFindDot(name)
    IN IF 1 < i /\ i < Len(name) THEN SubSeq(name, i, Len(name)) ELSE <<>>

\* Path.stem: the name without its suffix
Stem(name) ==
    LET i == RFindDot(name)
    IN IF 1 < i /\ i < Len(name) THEN SubSeq(name, 1, i - 1) ELSE name

\* Path.name and Path.parent
Name(p) == p[Len(p)]
Parent(p) == SubSeq(p, 1, Len(p) - 1)

\* f"{stem} ({counter}){suffix}"
Candidate(stem, counter, suffix) ==
    stem \o <<" ", "(">> \o Dec(counter) \o <<")">> \o suffix

----------------------------------------------------------------------------
\* Filesystem primitives used by file_ops.py

NoErr == ""

\* Path.exists()
Exists(f, p) == p = <<>> \/ p \in f.dirs \/ p \in DOMAIN f.files

IsDir(f, p) == p = <<>> \/ p \in f.dirs

Prefixes(p) == {SubSeq(p, 1, k) : k \in 1..Len(p)}

\* Path.mkdir(parents=True, exist_ok=True): creates the missing ancestors and
\* the directory; raises when the path or an ancestor is a regular file.
Mkdir(f, d) ==
    IF d \in DOMAIN f.files THEN [fs |-> f, err |-> "FileExistsError"]
    ELSE IF Prefixes(d) \cap DOMAIN f.files # {}
         THEN [fs |-> f, err |-> "NotADirectoryError"]
    ELSE [fs |-> [f EXCEPT !.dirs = @ \cup Prefixes(d)], err |-> NoErr]

\* Path.unlink(): removes a regular file; raises on a directory or a missing path
Unlink(f, p) ==
    IF p \in DOMAIN f.files
    THEN [fs |-> [f EXCEPT !.files = [q \in DOMAIN f.files \ {p} |-> f.files[q]]],
          err |-> NoErr]
    ELSE IF IsDir(f, p) THEN [fs |-> f, err |-> "IsADirectoryError"]
    ELSE [fs |-> f, err |-> "FileNotFoundError"]

\* shutil.move(src, dst) of a regular file: into dst when dst is a directory
\* (an error when the name is taken there), else onto dst, replacing a regular
\* file there; raises when src is missing or dst's directory does not exist.
ShutilMove(f, src, dst) ==
    LET real_dst == IF IsDir(f, dst) THEN Append(dst, Name(src)) ELSE dst
    IN IF src \notin DOMAIN f.files THEN [fs |-> f, err |-> "FileNotFoundError"]
       ELSE IF IsDir(f, dst) /\ Exists(f, real_dst)
            THEN [fs |-> f, err |-> "shutil.Error"]
       ELSE IF ~IsDir(f, Parent(real_dst))
            THEN [fs |-> f, err |-> "FileNotFoundError"]
       ELSE [fs |-> [f EXCEPT !.files =
                        [q \in (DOMAIN f.files \ {src}) \cup {real_dst} |->
                            IF q = real_dst THEN f.files[src] ELSE f.files[q]]],
             err |-> NoErr]

----------------------------------------------------------------------------
\* _unique_name

RECURSIVE UniqueFrom(_, _, _, _, _)
\* the while loop of _unique_name, entered with the given counter
UniqueFrom(f, parent, stem, suffix, counter) ==
    LET candidate == Append(parent, Candidate(stem, counter, suffix))
    IN IF ~Exists(f, candidate) THEN candidate
       ELSE UniqueFrom(f, parent, stem, suffix, counter + 1)

\* Faulty variant of _unique_name: no loop, the "(1)" name is taken as is.
unique_name_no_loop(f, path) ==
    Append(Parent(path), Candidate(Stem(Name(path)), 1, Suffix(Name(path))))

unique_name(f, path) ==
    UniqueFrom(f, Parent(path), Stem(Name(path)), Suffix(Name(path)), 1)

----------------------------------------------------------------------------
\* FileOps.move_files

MsgMissing == "File no longer exists"
MsgExists == "File already exists at destination"

Policies == {"skip", "rename", "overwrite"}

MoveRecord(original, destination) ==
    [original |-> original, destination |-> destination]

\* the locals of move_files before its loop: result = MoveResult(), batch = []
MoveStart(f) ==
    [fs |-> f, success |-> <<>>, skipped |-> <<>>, batch |-> <<>>, raised |-> NoErr]

\* Faulty variant of the source check: the source is taken to exist.
SourceMissing_unchecked(f, src) == FALSE

\* `if not src.exists()`
SourceMissing(f, src) == ~Exists(f, src)

\* Faulty variant of the conflict handling: "skip" does not leave the loop body
\* (the `continue` is missing), so the move goes ahead onto the existing file.
Conflict_skip_falls_through(f, dest, on_conflict) ==
    IF Exists(f, dest) /\ on_conflict = "rename"
    THEN [skip |-> FALSE, dest |-> unique_name(f, dest), fs |-> f, err |-> NoErr]
    ELSE IF Exists(f, dest) /\ on_conflict = "overwrite"
    THEN [skip |-> FALSE, dest |-> dest, fs |-> Unlink(f, dest).fs,
          err |-> Unlink(f, dest).err]
    ELSE [skip |-> FALSE, dest |-> dest, fs |-> f, err |-> NoErr]

\* Faulty variant of the conflict handling: "rename" keeps the name, so the
\* move goes onto the existing file.
Conflict_rename_keeps_name(f, dest, on_conflict) ==
    IF Exists(f, dest) /\ on_conflict = "skip"
    THEN [skip |-> TRUE, dest |-> dest, fs |-> f, err |-> NoErr]
    ELSE IF Exists(f, dest) /\ on_conflict = "overwrite"
    THEN [skip |-> FALSE, dest |-> dest, fs |-> Unlink(f, dest).fs,
          err |-> Unlink(f, dest).err]
    ELSE [skip |-> FALSE, dest |-> dest, fs |-> f, err |-> NoErr]

\* `if dest.exists(): ...`: what the conflict policy decides for `dest`:
\* whether the pair is skipped, the path to move to, and the filesystem after
\* the overwrite's unlink (err when the unlink raises)
Conflict(f, dest, on_conflict) ==
    IF ~Exists(f, dest)
    THEN [skip |-> FALSE, dest |-> dest, fs |-> f, err |-> NoErr]
    ELSE IF on_conflict = "skip"
    THEN [skip |-> TRUE, dest |-> dest, fs |-> f, err |-> NoErr]
    ELSE IF on_conflict = "rename"
    THEN [skip |-> FALSE, dest |-> unique_name(f, dest), fs |-> f, err |-> NoErr]
    ELSE IF on_conflict = "overwrite"
    THEN [skip |-> FALSE, dest |-> dest, fs |-> Unlink(f, dest).fs,
          err |-> Unlink(f, dest).err]
    ELSE [skip |-> FALSE, dest |-> dest, fs |-> f, err |-> NoErr]

\* one iteration of the loop of move_files; an exception (no handler in
\* move_files) is recorded in `raised`
MoveStep(st, pair, on_conflict) ==
    LET src == pair[1]
        dest_dir == pair[2]
    IN IF SourceMissing(st.fs, src)
       THEN [st EXCEPT !.skipped = Append(@, <<src, MsgMissing>>)]
       ELSE
       LET mk == Mkdir(st.fs, dest_dir)
           c == Conflict(mk.fs, Append(dest_dir, Name(src)), on_conflict)
           mv == ShutilMove(c.fs, src, c.dest)
           record == MoveRecord(src, c.dest)
       IN IF mk.err # NoErr THEN [st EXCEPT !.raised = mk.err]
          ELSE IF c.skip
          THEN [st EXCEPT !.fs = mk.fs, !.skipped = Append(@, <<src, MsgExists>>)]
          ELSE IF c.err # NoErr THEN [st EXCEPT !.fs = c.fs, !.raised = c.err]
          ELSE IF mv.err # NoErr THEN [st EXCEPT !.fs = mv.fs, !.raised = mv.err]
          ELSE [st EXCEPT !.fs = mv.fs,
                          !.batch = Append(@, record),
                          !.success = Append(@, record)]

RECURSIVE MoveLoop(_, _, _)
\* the loop of move_files over `files`; an exception ends it
MoveLoop(st, files, on_conflict) ==
    IF files = <<>> \/ st.raised # NoErr THEN st
    ELSE MoveLoop(MoveStep(st, Head(files), on_conflict), Tail(files), on_conflict)

\* `if batch: self._undo_stack.append(batch)`, not reached when the loop raised
PushBatch(stack, st) ==
    IF st.raised = NoErr /\ st.batch # <<>> THEN Append(stack, st.batch) ELSE stack

\* move_files as a function of the filesystem and the stack it starts with
MoveFiles(f, stack, files, on_conflict) ==
    LET st == MoveLoop(MoveStart(f), files, on_conflict)
    IN [fs |-> st.fs, stack |-> PushBatch(stack, st), raised |-> st.raised,
        success |-> st.success, skipped |-> st.skipped, batch |-> st.batch]

----------------------------------------------------------------------------
\* FileOps.undo_last and FileOps.can_undo

can_undo == undo_stack # <<>>

UndoStart(f) == [fs |-> f, undone |-> <<>>, raised |-> NoErr]

\* Faulty variant of the destination check: the destination is taken to exist.
DestinationExists_unchecked(f, record) == TRUE

\* `if record.destination.exists()`
DestinationExists(f, record) == Exists(f, record.destination)

\* one iteration of the loop of undo_last
UndoStep(st, record) ==
    IF ~DestinationExists(st.fs, record) THEN st
    ELSE
    LET mk == Mkdir(st.fs, Parent(record.original))
        mv == ShutilMove(mk.fs, record.destination, record.original)
    IN IF mk.err # NoErr THEN [st EXCEPT !.raised = mk.err]
       ELSE IF mv.err # NoErr THEN [st EXCEPT !.fs = mv.fs, !.raised = mv.err]
       ELSE [st EXCEPT !.fs = mv.fs, !.undone = Append(@, record)]

RECURSIVE UndoLoop(_, _)
\* the loop of undo_last over the popped batch, in the batch's own order
UndoLoop(st, batch) ==
    IF batch = <<>> \/ st.raised # NoErr THEN st
    ELSE UndoLoop(UndoStep(st, Head(batch)), Tail(batch))

\* Faulty variant of the pop: pop(0), the oldest batch.
PopBatch_oldest(stack) ==
    [index |-> 1, batch |-> stack[1], rest |-> SubSeq(stack, 2, Len(stack))]

\* self._undo_stack.pop() on a non-empty stack: the index taken, the batch
\* there and the stack left
PopBatch(stack) ==
    [index |-> Len(stack), batch |-> stack[Len(stack)],
     rest |-> SubSeq(stack, 1, Len(stack) - 1)]

\* Faulty variant of undo_last: no check for an empty stack, so that pop()
\* raises IndexError there.
UndoLast_no_guard(f, stack) ==
    IF stack = <<>>
    THEN [fs |-> f, stack |-> stack, index |-> 0, popped |-> <<>>,
          undone |-> <<>>, raised |-> "IndexError"]
    ELSE LET st == UndoLoop(UndoStart(f), stack[Len(stack)])
         IN [fs |-> st.fs, stack |-> SubSeq(stack, 1, Len(stack) - 1),
             index |-> Len(stack), popped |-> stack[Len(stack)],
             undone |-> st.undone, raised |-> st.raised]

\* undo_last as a function of the filesystem and the stack it starts with;
\* index is the position of the batch it took (0: none)
UndoLast(f, stack) ==
    IF stack = <<>>
    THEN [fs |-> f, stack |-> stack, index |-> 0, popped |-> <<>>,
          undone |-> <<>>, raised |-> NoErr]
    ELSE LET pop == PopBatch(stack)
             st == UndoLoop(UndoStart(f), pop.batch)
         IN [fs |-> st.fs, stack |-> pop.rest, index |-> pop.index,
             popped |-> pop.batch, undone |-> st.undone, raised |-> st.raised]

----------------------------------------------------------------------------
\* The filesystems and the batches the model starts from

DirA == <<"A">>
DirB == <<"B">>
DirC == <<"C">>
NameF == <<"f", ".", "t">>
NameF1 == Candidate(Stem(NameF), 1, Suffix(NameF))

TopNames == {DirA, DirB, DirC}
InitNames == {NameF, NameF1}
SrcPaths == {<<DirA, NameF>>, <<DirB, NameF>>}
DestDirs == {<<d>> : d \in TopNames}

\* the content initially at a path: different paths hold different contents
DataAt(p) ==
    (CASE p[1] = DirA -> 10 [] p[1] = DirB -> 20 [] OTHER -> 30)
    + (IF Len(p) = 1 THEN 0 ELSE IF p[2] = NameF THEN 1 ELSE 2)

\* A is a directory (the downloads directory) that holds f.t and possibly
\* "f (1).t"; B is absent or a directory holding any of the initial names; C is
\* absent or a regular file.
InitFs ==
    { [dirs |-> {<<DirA>>} \cup bdir,
       files |-> [p \in inA \cup inB \cup cfile |-> DataAt(p)]] :
         <<bdir, inA, inB, cfile>> \in
            { q \in (SUBSET {<<DirB>>}) \X (SUBSET {<<DirA, n>> : n \in InitNames})
                     \X (SUBSET {<<DirB, n>> : n \in InitNames}) \X (SUBSET {<<DirC>>}) :
                 /\ q[3] # {} => q[1] # {}
                 /\ <<DirA, NameF>> \in q[2] } }

Pairs == SrcPaths \X DestDirs

RECURSIVE SeqsUpTo(_, _)
SeqsUpTo(S, n) ==
    IF n = 0 THEN {<<>>}
    ELSE LET shorter == SeqsUpTo(S, n - 1)
         IN shorter \cup {Append(s, x) : s \in shorter, x \in S}

Batches == SeqsUpTo(Pairs, MaxBatch)

----------------------------------------------------------------------------
\* The state machine

\* `last` for a call of move_files: the arguments, the filesystem and the stack the
\* call started with, the result object as the call left it, and the exception if
\* it raised (then the caller receives no result); for a call of undo_last: the
\* stack it started with, the batch it popped with its tag, and the list returned.
NoCall ==
    [op |-> "none", files |-> <<>>, on_conflict |-> "", pre |-> [dirs |-> {}, files |-> <<>>],
     stack0 |-> <<>>, popped |-> <<>>, tag |-> 0, raised |-> NoErr,
     success |-> <<>>, skipped |-> <<>>, undone |-> <<>>]

\* Nothing on the classifier side: an empty history, no platform configured.
NoCourses == [c \in {} |-> <<>>]
NoLinks == [l \in {} |-> <<>>]
NoHistory == [exists |-> FALSE, downloads |-> <<>>, urls |-> <<>>, visits |-> <<>>]
NoConfig == [download_dir |-> <<>>, platforms |-> <<>>, courses |-> NoCourses,
             groq_api_key |-> ""]
NoDisk == [paths |-> {}, links |-> NoLinks, loop_error |-> ""]
NoOut == [op |-> "none"]
NoUi == [kind |-> "none"]

Init ==
    /\ fs \in InitFs
    /\ undo_stack = <<>>
    /\ tags = <<>>
    /\ last = NoCall
    /\ nPush = 0
    /\ nPairs = 0
    /\ nExt = 0
    /\ history = NoHistory
    /\ config = NoConfig
    /\ disk = NoDisk
    /\ out = NoOut
    /\ ui = NoUi

Cost(files) == IF files = <<>> THEN 1 ELSE Len(files)

\* s without its i-th element
RemoveAt(s, i) == SubSeq(s, 1, i - 1) \o SubSeq(s, i + 1, Len(s))

\* a call move_files(files, on_conflict) in the current state
MoveCall(files, on_conflict) ==
    LET r == MoveFiles(fs, undo_stack, files, on_conflict)
        pushed == Len(r.stack) > Len(undo_stack)
    IN /\ nPairs' = nPairs + Cost(files)
       /\ fs' = r.fs
       /\ undo_stack' = r.stack
       /\ nPush' = IF pushed THEN nPush + 1 ELSE nPush
       /\ tags' = IF pushed THEN Append(tags, nPush + 1) ELSE tags
       /\ last' = [NoCall EXCEPT !.op = "move", !.files = files,
                                 !.on_conflict = on_conflict, !.pre = fs,
                                 !.stack0 = undo_stack, !.raised = r.raised,
                                 !.success = r.success, !.skipped = r.skipped]
       /\ UNCHANGED nExt
       /\ UNCHANGED scanVars

\* move_files(files, on_conflict), within the work the model allows
move_files(files, on_conflict) ==
    /\ nPairs + Cost(files) <= MaxPairs
    /\ MoveCall(files, on_conflict)

\* undo_last()
undo_last ==
    LET r == UndoLast(fs, undo_stack)
    IN /\ fs' = r.fs
       /\ undo_stack' = r.stack
       /\ tags' = IF r.index = 0 THEN tags ELSE RemoveAt(tags, r.index)
       /\ last' = [NoCall EXCEPT !.op = "undo", !.stack0 = undo_stack,
                                 !.popped = r.popped,
                                 !.tag = IF r.index = 0 THEN 0 ELSE tags[r.index],
                                 !.raised = r.raised, !.undone = r.undone]
       /\ UNCHANGED <<nPush, nPairs, nExt>>
       /\ UNCHANGED scanVars

\* the destinations and the original directories of the batch on top of the stack:
\* the paths whose state the next undo_last reads
TopDestinations ==
    IF undo_stack = <<>> THEN {}
    ELSE {undo_stack[Len(undo_stack)][i].destination :
              i \in 1..Len(undo_stack[Len(undo_stack)])}

TopOriginalDirs ==
    IF undo_stack = <<>> THEN {}
    ELSE {Parent(undo_stack[Len(undo_stack)][i].original) :
              i \in 1..Len(undo_stack[Len(undo_stack)])}

\* The user (or another program) deletes a moved file between calls.
ExternalDelete(p) ==
    /\ nExt < MaxExt
    /\ p \in TopDestinations
    /\ p \in DOMAIN fs.files
    /\ fs' = Unlink(fs, p).fs
    /\ last' = [NoCall EXCEPT !.op = "ext"]
    /\ nExt' = nExt + 1
    /\ UNCHANGED <<undo_stack, tags, nPush, nPairs>>
    /\ UNCHANGED scanVars

\* The user removes an empty directory between calls.
ExternalRmdir(d) ==
    /\ nExt < MaxExt
    /\ d \in TopOriginalDirs
    /\ d \in fs.dirs
    /\ \A q \in fs.dirs \cup DOMAIN fs.files : q = d \/ d \notin Prefixes(q)
    /\ fs' = [fs EXCEPT !.dirs = @ \ {d}]
    /\ last' = [NoCall EXCEPT !.op = "ext"]
    /\ nExt' = nExt + 1
    /\ UNCHANGED <<undo_stack, tags, nPush, nPairs>>
    /\ UNCHANGED scanVars

Next ==
    \/ \E files \in Batches, on_conflict \in Policies : move_files(files, on_conflict)
    \/ undo_last
    \/ \E p \in DOMAIN fs.files : ExternalDelete(p)
    \/ \E d \in fs.dirs : ExternalRmdir(d)

Spec == Init /\ [][Next]_vars

----------------------------------------------------------------------------
\* What the claims speak about

\* the state of the loop of the last move_files call after its first k pairs
MoveAt(k) ==
    MoveLoop(MoveStart(last.pre), SubSeq(last.files, 1, k), last.on_conflict)

\* the state of the loop of an undo_last call that starts in the current state,
\* after the first k records of the batch on top of the stack
UndoAt(k) ==
    UndoLoop(UndoStart(fs), SubSeq(undo_stack[Len(undo_stack)], 1, k))

Range(s) == {s[i] : i \in 1..Len(s)}

Originals(batch) == {batch[i].original : i \in 1..Len(batch)}
Destinations(batch) == {batch[i].destination : i \in 1..Len(batch)}

\* path p holds in filesystem g what it held in filesystem f (a file with the
\* same content, or no file)
SameAt(f, g, p) ==
    /\ p \in DOMAIN f.files <=> p \in DOMAIN g.files
    /\ p \in DOMAIN f.files /\ p \in DOMAIN g.files => f.files[p] = g.files[p]

\* a step that is an undo_last directly after a move_files that returned
UndoRightAfterMove == last.op = "move" /\ last.raised = NoErr /\ last'.op = "undo"

----------------------------------------------------------------------------
\* C1: round trip under rename.  When undo_last follows a move_files with
\* on_conflict = "rename" (nothing else in between), every file the batch moved
\* is back at its original path with its content, and no destination of the batch
\* holds a file that was not there before the batch.
C1_RoundTripRename ==
    [][ UndoRightAfterMove /\ last.on_conflict = "rename" =>
          /\ \A p \in Originals(last.success) \cap DOMAIN last.pre.files :
                p \in DOMAIN fs'.files /\ fs'.files[p] = last.pre.files[p]
          /\ \A p \in Destinations(last.success) :
                p \in DOMAIN fs'.files => SameAt(last.pre, fs', p) ]_vars

\* C2: undo restores the pre-move state under every conflict policy.  When
\* undo_last follows a move_files (nothing else in between), every original and
\* every destination path of the batch holds what it held before move_files.
C2_UndoRestoresAllPolicies ==
    [][ UndoRightAfterMove =>
          \A p \in Originals(last.success) \cup Destinations(last.success) :
              SameAt(last.pre, fs', p) ]_vars

\* C3: undo-stack size.  A move_files call in which at least one move succeeded
\* pushes exactly its success list, any other move_files call leaves the stack
\* alone; undo_last on a non-empty stack removes exactly the last batch; nothing
\* else changes the stack; no batch on the stack is empty.
C3_StackSize ==
    [][ /\ last'.op = "move" /\ last'.success # <<>> =>
              undo_stack' = Append(undo_stack, last'.success)
        /\ last'.op = "move" /\ last'.success = <<>> => undo_stack' = undo_stack
        /\ last'.op = "undo" /\ undo_stack # <<>> =>
              undo_stack' = SubSeq(undo_stack, 1, Len(undo_stack) - 1)
        /\ last'.op \notin {"move", "undo"} => undo_stack' = undo_stack
        /\ \A i \in 1..Len(undo_stack') : undo_stack'[i] # <<>> ]_vars

\* C4: LIFO undo.  undo_last on a non-empty stack takes the batch pushed last
\* among those still on the stack (the one with the greatest push number),
\* moves back records of that batch only, and takes it off the stack, so that
\* no batch is undone twice.
C4_LifoUndo ==
    [][ last'.op = "undo" /\ undo_stack # <<>> =>
          /\ last'.tag \in Range(tags)
          /\ \A t \in Range(tags) : t <= last'.tag
          /\ last'.tag \notin Range(tags')
          /\ last'.popped = undo_stack[Len(undo_stack)]
          /\ undo_stack' = SubSeq(undo_stack, 1, Len(undo_stack) - 1)
          /\ Range(last'.undone) \subseteq Range(last'.popped)
          /\ Len(tags') = Len(undo_stack') ]_vars

\* two batches were pushed and both were undone, the first pushed last
C4_Witness ==
    /\ last.op = "undo" /\ last.tag = 1 /\ nPush = 2 /\ undo_stack = <<>>
    /\ last.undone # <<>>

\* C5: partial failure inside a batch.  No move_files call raises: a pair that
\* cannot be relocated is a skip entry, every pair of the batch is accounted for
\* as a success or a skip, and the moves made are on the undo stack.
C5_FailureIsASkip ==
    last.op = "move" =>
        /\ last.raised = NoErr
        /\ Len(last.success) + Len(last.skipped) = Len(last.files)
        /\ last.success # <<>> => undo_stack = Append(last.stack0, last.success)

\* C6: best-effort undo.  undo_last on a non-empty stack goes through the popped
\* batch in order; a record whose destination exists when it is processed is
\* moved back (its content is then at the original path, whose directory exists,
\* and no longer at the destination) and is appended to the returned list; a
\* record whose destination is gone changes nothing and is not returned; the call
\* does not raise, and the batch is off the stack in both cases.
C6_BestEffortUndo ==
    [][ last'.op = "undo" /\ undo_stack # <<>> =>
          LET batch == undo_stack[Len(undo_stack)]
          IN /\ \A k \in 1..Len(batch) :
                   LET before == UndoAt(k - 1)
                       after == UndoAt(k)
                       r == batch[k]
                   IN IF Exists(before.fs, r.destination)
                      THEN /\ after.raised = NoErr
                           /\ after.undone = Append(before.undone, r)
                           /\ r.original \in DOMAIN after.fs.files
                           /\ after.fs.files[r.original] = before.fs.files[r.destination]
                           /\ IsDir(after.fs, Parent(r.original))
                           /\ r.destination \notin DOMAIN after.fs.files
                           /\ \A q \in DOMAIN before.fs.files \ {r.destination, r.original} :
                                 q \in DOMAIN after.fs.files
                                 /\ after.fs.files[q] = before.fs.files[q]
                      ELSE after = before
             /\ last'.raised = NoErr
             /\ last'.undone = UndoAt(Len(batch)).undone
             /\ fs' = UndoAt(Len(batch)).fs
             /\ undo_stack' = SubSeq(undo_stack, 1, Len(undo_stack) - 1) ]_vars

\* an undo of a batch of two records of which one destination had been deleted
\* and the other was moved back
C6_Witness ==
    /\ last.op = "undo" /\ Len(last.popped) = 2 /\ Len(last.undone) = 1
    /\ nExt = 1
    /\ Originals(last.popped) \cap Destinations(last.popped) = {}
    /\ last.undone[1].original \in DOMAIN fs.files

\* C7: undo_last on an empty stack returns the empty list, does not raise and
\* changes neither the stack nor the filesystem; can_undo is true exactly when
\* the stack holds a batch.
C7_UndoOnEmptyStack ==
    [][ /\ last'.op = "undo" /\ undo_stack = <<>> =>
              /\ last'.undone = <<>>
              /\ last'.raised = NoErr
              /\ fs' = fs
              /\ undo_stack' = <<>>
        /\ can_undo <=> Len(undo_stack) > 0 ]_vars

\* undo_last was called on an empty stack in a filesystem that holds files
C7_Witness ==
    last.op = "undo" /\ last.stack0 = <<>> /\ undo_stack = <<>> /\ DOMAIN fs.files # {}

\* C8: missing source.  A pair whose source does not exist when the loop reaches
\* it adds exactly one skip entry (source, "File no longer exists"), changes
\* nothing in the filesystem, adds no MoveRecord, and lets the loop go on with
\* the next pair; a call that returns has accounted for every pair.
C8_MissingSourceSkipped ==
    last.op = "move" =>
        /\ \A k \in 1..Len(last.files) :
              LET before == MoveAt(k - 1)
                  after == MoveAt(k)
                  src == last.files[k][1]
              IN before.raised = NoErr /\ ~Exists(before.fs, src) =>
                    /\ after.skipped = Append(before.skipped, <<src, MsgMissing>>)
                    /\ after.fs = before.fs
                    /\ after.success = before.success
                    /\ after.batch = before.batch
                    /\ after.raised = NoErr
        /\ last.skipped = MoveAt(Len(last.files)).skipped
        /\ last.raised = NoErr =>
              Len(last.success) + Len(last.skipped) = Len(last.files)

\* the first pair's source was missing and the second pair was moved
C8_Witness ==
    /\ last.op = "move" /\ Len(last.files) = 2
    /\ ~Exists(last.pre, last.files[1][1])
    /\ last.skipped = <<(<<last.files[1][1], MsgMissing>>)>>
    /\ Len(last.success) = 1

\* C9: skip policy.  Under on_conflict = "skip" a pair whose destination path
\* (destination directory / source file name) exists when the loop reaches it
\* adds exactly one skip entry (source, "File already exists at destination")
\* and no MoveRecord, and leaves the filesystem (the source and the file at the
\* destination among it) as it is; a call that moved nothing pushes nothing.
C9_SkipPolicy ==
    last.op = "move" =>
        /\ \A k \in 1..Len(last.files) :
              LET before == MoveAt(k - 1)
                  after == MoveAt(k)
                  src == last.files[k][1]
                  dest == Append(last.files[k][2], Name(src))
              IN (/\ before.raised = NoErr
                  /\ last.on_conflict = "skip"
                  /\ Exists(before.fs, src)
                  /\ Exists(before.fs, dest))
                 => /\ after.skipped = Append(before.skipped, <<src, MsgExists>>)
                    /\ after.fs = before.fs
                    /\ after.success = before.success
                    /\ after.batch = before.batch
                    /\ after.raised = NoErr
        /\ last.skipped = MoveAt(Len(last.files)).skipped
        /\ last.success = <<>> => undo_stack = last.stack0

\* a one-pair call under "skip" whose destination was taken by another file:
\* nothing moved, nothing pushed
C9_Witness ==
    /\ last.op = "move" /\ last.on_conflict = "skip" /\ Len(last.files) = 1
    /\ last.files[1][1] # Append(last.files[1][2], Name(last.files[1][1]))
    /\ last.skipped = <<(<<last.files[1][1], MsgExists>>)>>
    /\ last.success = <<>>
    /\ undo_stack = last.stack0

\* the number n of a suffixed name "<stem> (n)<extension>" of dest that does not
\* exist in f and is the smallest such n >= 1
SmallestFree(f, dest, n) ==
    LET cand(i) == Append(Parent(dest), Candidate(Stem(Name(dest)), i, Suffix(Name(dest))))
    IN /\ n >= 1
       /\ ~Exists(f, cand(n))
       /\ \A i \in 1..(n - 1) : Exists(f, cand(i))

\* what the rename policy does to a pair whose destination path exists, apart
\* from what becomes of the file that was at the destination path: the source
\* goes to the suffixed name with the smallest free n, n is at most the number
\* of files and directories in the filesystem plus one (the search ends), and
\* the record names the suffixed path
RenameMoves(before, after, src, dest) ==
    /\ after.raised = NoErr
    /\ after.success = Append(before.success, MoveRecord(src, after.success[Len(after.success)].destination))
    /\ \E n \in 1..(Cardinality(DOMAIN before.fs.files) + Cardinality(before.fs.dirs) + 1) :
          /\ SmallestFree(before.fs, dest, n)
          /\ after.success[Len(after.success)].destination =
                Append(Parent(dest), Candidate(Stem(Name(dest)), n, Suffix(Name(dest))))
    /\ LET target == after.success[Len(after.success)].destination
       IN /\ target \in DOMAIN after.fs.files
          /\ after.fs.files[target] = before.fs.files[src]
          /\ src \notin DOMAIN after.fs.files

\* C10: rename policy.  Under on_conflict = "rename" a pair whose destination
\* path exists when the loop reaches it is moved to "<stem> (n)<extension>" in
\* the destination directory for the smallest n >= 1 whose name is free, the
\* record's destination is that path, and the file that was at the destination
\* path is still there with its content.
C10_RenamePolicy ==
    last.op = "move" /\ last.on_conflict = "rename" =>
        \A k \in 1..Len(last.files) :
            LET before == MoveAt(k - 1)
                after == MoveAt(k)
                src == last.files[k][1]
                dest == Append(last.files[k][2], Name(src))
            IN before.raised = NoErr /\ Exists(before.fs, src) /\ Exists(before.fs, dest) =>
                  /\ RenameMoves(before, after, src, dest)
                  /\ dest \in DOMAIN after.fs.files
                  /\ after.fs.files[dest] = before.fs.files[dest]

\* C10 as amended: the same, except that the file that was at the destination
\* path is still there with its content unless it is the source itself (the
\* destination directory is the source's own directory); the source is then
\* renamed in place and the destination path is left without a file.
C10_RenamePolicyAmended ==
    last.op = "move" /\ last.on_conflict = "rename" =>
        \A k \in 1..Len(last.files) :
            LET before == MoveAt(k - 1)
                after == MoveAt(k)
                src == last.files[k][1]
                dest == Append(last.files[k][2], Name(src))
            IN before.raised = NoErr /\ Exists(before.fs, src) /\ Exists(before.fs, dest) =>
                  /\ RenameMoves(before, after, src, dest)
                  /\ src # dest =>
                        /\ dest \in DOMAIN after.fs.files
                        /\ after.fs.files[dest] = before.fs.files[dest]
                  /\ src = dest => dest \notin DOMAIN after.fs.files

\* a one-pair call under "rename" into another directory where both the name
\* and its "(1)" variant were taken: the file went to the "(2)" name
C10_Witness ==
    /\ last.op = "move" /\ last.on_conflict = "rename" /\ Len(last.files) = 1
    /\ Len(last.success) = 1
    /\ last.success[1].original = <<DirA, NameF>>
    /\ last.success[1].destination =
          <<DirB, Candidate(Stem(NameF), 2, Suffix(NameF))>>
    /\ <<DirB, NameF>> \in DOMAIN fs.files
    /\ fs.files[<<DirB, NameF>>] = last.pre.files[<<DirB, NameF>>]

----------------------------------------------------------------------------
\* Text on the classifier side.  A string of the program (a URL, a domain, a
\* course id, a page title) is a sequence of pieces, and a piece is a string
\* literal that stands for its characters.  Every literal the code searches for
\* ("/courses/", "course_id=", " - ", ...) is one piece and the digits and letters
\* of an identifier are pieces of one character, so that one string is a substring
\* of another exactly when its pieces are a contiguous run of the other's pieces.
\* "" is <<>>.

\* Python's None, where the code only asks whether the value is falsy
None == <<>>

\* Python: a in b
SubstringOf(a, b) ==
    \E i \in 1..(Len(b) - Len(a) + 1) : SubSeq(b, i, i + Len(a) - 1) = a

\* str.lower(), piece by piece
LowerPiece(c) ==
    CASE c = "A" -> "a"
      [] c = "Canvas" -> "canvas"
      [] c = "Moodle" -> "moodle"
      [] c = "Blackboard" -> "blackboard"
      [] c = "Insendi" -> "insendi"
      [] c = "Generic" -> "generic"
      [] c = "Loading" -> "loading"
      [] c = "Dashboard" -> "dashboard"
      [] c = "Course:" -> "course:"
      [] c = "Intro to Algorithms" -> "intro to algorithms"
      [] c = "Other Course" -> "other course"
      [] c = "Downloads" -> "downloads"
      [] c = "Documents" -> "documents"
      [] c = "DL" -> "dl"
      [] OTHER -> c

Lower(s) == [i \in 1..Len(s) |-> LowerPiece(s[i])]

\* character classes of the regular expressions
DigitPieces == {Digit[i] : i \in 1..Len(Digit)}
WordPieces == DigitPieces \cup {"_", "-", "a", "A", "unknown", "search", "view"}
SpacePieces == {" "}

\* the length of the longest run of pieces of a class that starts at s[i]
RECURSIVE RunLen(_, _, _)
RunLen(s, i, class) ==
    IF i <= Len(s) /\ s[i] \in class THEN 1 + RunLen(s, i + 1, class) ELSE 0

\* re.search(marker + "([class]+)", s): group 1 of the leftmost match, None
\* when nothing matches
SearchGroup(marker, class, s) ==
    LET at == {i \in 1..(Len(s) - Len(marker)) :
                  /\ SubSeq(s, i, i + Len(marker) - 1) = marker
                  /\ s[i + Len(marker)] \in class}
    IN IF at = {} THEN None
       ELSE LET i == CHOOSE k \in at : \A j \in at : k <= j
                b == i + Len(marker)
            IN SubSeq(s, b, b + RunLen(s, b, class) - 1)

\* SQL: s LIKE '%seg1%seg2%...'.  LIKE compares letters without regard to
\* case, and an underscore of the pattern stands for any one character.
PieceLike(p, c) == (p = "_" /\ Len(c) = 1) \/ LowerPiece(p) = LowerPiece(c)

SegmentAt(seg, s, i) ==
    /\ i + Len(seg) - 1 <= Len(s)
    /\ \A k \in 1..Len(seg) : PieceLike(seg[k], s[i + k - 1])

RECURSIVE LikeFrom(_, _, _)
LikeFrom(segs, s, i) ==
    IF segs = <<>> THEN TRUE
    ELSE \E j \in i..(Len(s) + 1) :
            /\ SegmentAt(Head(segs), s, j)
            /\ LikeFrom(Tail(segs), s, j + Len(Head(segs)))

Like(segs, s) == LikeFrom(segs, s, 1)

\* urlparse(url).netloc: what follows "scheme://" up to the first "/", "?" or "#"
Schemes == {"https://"}
Delimiters ==
    {"/", "?", "/courses/", "/course/", ".php?id=", "/ultra", "/download", "/files",
     "/webapps/blackboard/", "/bbcswebdav/", "/pluginfile.php/",
     "/mod/resource/view.php", "/api/v1/imp/", "/download?download_frd=",
     "/class/", "/classes/", "/section/", "/sections/"}

Netloc(url) ==
    IF url = <<>> \/ url[1] \notin Schemes THEN <<>>
    ELSE SubSeq(url, 2, 1 + RunLen(url, 2, {url[i] : i \in 1..Len(url)} \ Delimiters))

----------------------------------------------------------------------------
\* SQL: ORDER BY key DESC.  keys[i] is the key of row i; the result lists the
\* row numbers by decreasing key (rows with equal keys in table order).
DescOrder(keys) ==
    LET before(i) == Cardinality({j \in 1..Len(keys) :
                         keys[j] > keys[i] \/ (keys[j] = keys[i] /\ j < i)})
    IN [r \in 1..Len(keys) |-> CHOOSE i \in 1..Len(keys) : before(i) = r - 1]

\* the rows of a table that satisfy a condition, in table order
RECURSIVE Where(_, _)
Where(rows, keep) ==
    IF rows = <<>> THEN <<>>
    ELSE (IF Head(rows) \in keep THEN <<Head(rows)>> ELSE <<>>) \o Where(Tail(rows), keep)

\* SQL: LIMIT n
Limit(rows, n) == SubSeq(rows, 1, IF Len(rows) < n THEN Len(rows) ELSE n)

----------------------------------------------------------------------------
\* The platform adapters (src/platforms).  An adapter is named by its `name`.

ALL_ADAPTERS == <<"Canvas", "Moodle", "Blackboard", "Insendi">>
NoAdapter == "None"

\* ADAPTER_MAP = {a.name.lower(): a for a in ALL_ADAPTERS}; get_adapter looks
\* platform_type.lower() up in it
get_adapter(platform_type) ==
    LET found == {i \in 1..Len(ALL_ADAPTERS) :
                     LowerPiece(ALL_ADAPTERS[i]) = LowerPiece(platform_type)}
    IN IF found = {} THEN NoAdapter ELSE ALL_ADAPTERS[CHOOSE i \in found : TRUE]

url_fingerprints(adapter) ==
    CASE adapter = "Canvas" -> << <<".", "instructure", ".com">>, <<"/download?download_frd=">> >>
      [] adapter = "Moodle" -> << <<"/pluginfile.php/">>, <<"/mod/resource/view.php">> >>
      [] adapter = "Blackboard" ->
            << <<"/bbcswebdav/">>, <<"/webapps/blackboard/">>, <<"/ultra", "/courses/">> >>
      [] adapter = "Insendi" -> << <<"/api/v1/imp/">>, <<"insendi", ".com">> >>
      [] OTHER -> <<>>

\* matches_url is the same in every adapter: domain in url
matches_url(adapter, url, domain) == SubstringOf(domain, url)

\* Blackboard: (?:/courses/|course_id=)(_\d+_\d+), leftmost match
BlackboardId(s, b) ==
    LET d1 == RunLen(s, b + 1, DigitPieces)
        d2 == RunLen(s, b + 2 + d1, DigitPieces)
    IN IF /\ b + 1 + d1 <= Len(s)
          /\ s[b] = "_" /\ d1 >= 1 /\ s[b + 1 + d1] = "_" /\ d2 >= 1
       THEN SubSeq(s, b, b + 1 + d1 + d2)
       ELSE None

BlackboardSearch(markers, s) ==
    LET at == {i \in 1..(Len(s) - 1) : s[i] \in markers /\ BlackboardId(s, i + 1) # None}
    IN IF at = {} THEN None
       ELSE BlackboardId(s, (CHOOSE k \in at : \A j \in at : k <= j) + 1)

extract_course_id(adapter, url) ==
    CASE adapter = "Canvas" -> SearchGroup(<<"/courses/">>, DigitPieces, url)
      [] adapter = "Moodle" -> SearchGroup(<<"/course/", "view", ".php?id=">>, DigitPieces, url)
      [] adapter = "Blackboard" ->
            IF BlackboardSearch({"/courses/", "course_id="}, url) # None
            THEN BlackboardSearch({"/courses/", "course_id="}, url)
            ELSE LET at == {i \in 1..(Len(url) - 2) :
                               /\ url[i] = "/ultra" /\ url[i + 1] = "/courses/"
                               /\ BlackboardId(url, i + 2) # None}
                 IN IF at = {} THEN None
                    ELSE BlackboardId(url, (CHOOSE k \in at : \A j \in at : k <= j) + 2)
      [] adapter = "Insendi" -> SearchGroup(<<"/courses/">>, WordPieces, url)
      [] OTHER -> None

\* the LIKE patterns of infer_course_from_visits: the course pages of a platform
CoursePagePatterns(adapter, domain) ==
    CASE adapter = "Canvas" -> {<<domain, <<"/courses/">> >>}
      [] adapter = "Moodle" -> {<<domain, <<"/course/", "view", ".php?id=">> >>}
      [] adapter = "Blackboard" ->
            {<<domain, <<"/ultra", "/courses/">> >>, <<domain, <<"course_id=", "_">> >>}
      [] adapter = "Insendi" -> {<<domain, <<"/courses/">> >>}
      [] OTHER -> {}

\* SELECT u.url FROM visits v JOIN urls u ON v.url = u.id
UrlOfVisit(hist, v) ==
    LET rows == {i \in 1..Len(hist.urls) : hist.urls[i].id = v.url}
    IN hist.urls[CHOOSE i \in rows : TRUE].url

\* infer_course_from_visits: the most recent visit at or before download_time
\* to a page matching the pattern (LIMIT 1), and the id in that page's URL
infer_course_from_visits(adapter, hist, download_time, domain) ==
    LET joined == Where(hist.visits,
                        {v \in {hist.visits[i] : i \in 1..Len(hist.visits)} :
                            \E i \in 1..Len(hist.urls) : hist.urls[i].id = v.url})
        rows == Where(joined,
                      {v \in {joined[i] : i \in 1..Len(joined)} :
                          /\ \E pat \in CoursePagePatterns(adapter, domain) :
                                Like(pat, UrlOfVisit(hist, v))
                          /\ v.visit_time <= download_time})
        order == DescOrder([i \in 1..Len(rows) |-> rows[i].visit_time])
    IN IF rows = <<>> THEN None
       ELSE extract_course_id(adapter, UrlOfVisit(hist, rows[order[1]]))

\* str.strip() and its one-sided forms
RECURSIVE RStrip(_)
RStrip(s) ==
    IF s # <<>> /\ s[Len(s)] \in SpacePieces THEN RStrip(SubSeq(s, 1, Len(s) - 1)) ELSE s

RECURSIVE LStrip(_)
LStrip(s) == IF s # <<>> /\ Head(s) \in SpacePieces THEN LStrip(Tail(s)) ELSE s

Strip(s) == LStrip(RStrip(s))

\* re.sub(r"\s*[seps]\s*(keywords)\s*$", "", title): a title that ends in a
\* separator and a keyword loses them and the blanks around them; with
\* re.IGNORECASE the keyword is matched without regard to case
SubSuffix(title, seps, keywords, ignorecase) ==
    LET t1 == RStrip(title)
        t2 == RStrip(SubSeq(t1, 1, Len(t1) - 1))
        last_is_keyword ==
            \/ t1[Len(t1)] \in keywords
            \/ ignorecase /\ LowerPiece(t1[Len(t1)]) \in {LowerPiece(k) : k \in keywords}
    IN IF /\ t1 # <<>> /\ last_is_keyword
          /\ t2 # <<>> /\ t2[Len(t2)] \in seps
       THEN RStrip(SubSeq(t2, 1, Len(t2) - 1))
       ELSE title

\* Moodle: re.sub(r"^Course:\s*", "", title, IGNORECASE)
SubCoursePrefix(title) ==
    IF title # <<>> /\ LowerPiece(Head(title)) = "course:" THEN LStrip(Tail(title)) ELSE title

\* the keywords of each adapter's title suffix
CanvasSuffixes ==
    {"Files", "Modules", "Assignments", "Grades", "People", "Pages", "Syllabus",
     "Discussions", "Quizzes", "Announcements", "Settings"}
MoodleSuffixes == {"Moodle", "Dashboard"}
BlackboardSuffixes == {"Content", "Announcements", "Grades", "Course Materials"}
InsendiSuffixes == {"Files", "Newsfeed", "Weeks", "Grades", "People", "Settings"}

\* the cleaned form of a page title
CleanTitle(adapter, title) ==
    CASE adapter = "Canvas" -> Strip(SubSuffix(title, {":", "-"}, CanvasSuffixes, FALSE))
      [] adapter = "Moodle" ->
            Strip(SubCoursePrefix(Strip(SubSuffix(title, {":", "-"}, MoodleSuffixes, TRUE))))
      [] adapter = "Blackboard" ->
            Strip(SubSuffix(Strip(title), {":", "-"}, BlackboardSuffixes, FALSE))
      [] adapter = "Insendi" -> Strip(SubSuffix(title, {"-"}, InsendiSuffixes, FALSE))
      [] OTHER -> Strip(title)

\* the titles an adapter does not accept as a course name
Placeholders(adapter) ==
    CASE adapter = "Canvas" -> {<<>>, <<"canvas">>, <<"loading">>}
      [] adapter = "Moodle" -> {<<>>, <<"moodle">>, <<"loading">>, <<"dashboard">>}
      [] adapter = "Blackboard" ->
            {<<>>, <<"blackboard">>, <<"loading">>, <<"blackboard", " ", "learn">>}
      [] adapter = "Insendi" -> {<<>>, <<"insendi">>, <<"loading">>}
      [] OTHER -> {<<>>}

\* the LIKE pattern of discover_course_name: the pages of one course
CourseSpacePattern(adapter, course_id, domain) ==
    CASE adapter = "Canvas" -> <<domain, <<"/courses/">> \o course_id>>
      [] adapter = "Moodle" -> <<domain, <<"/course/", "view", ".php?id=">> \o course_id>>
      [] adapter = "Blackboard" -> <<domain, course_id>>
      [] adapter = "Insendi" -> <<domain, <<"/courses/">> \o course_id>>
      [] OTHER -> <<domain, course_id>>

\* LIMIT 5 of discover_course_name
TitleLimit == 5

\* for (title,) in cursor.fetchall(): the first title whose cleaned form is
\* accepted, "" when there is none
RECURSIVE FirstCleanTitle(_, _)
FirstCleanTitle(adapter, titles) ==
    IF titles = <<>> THEN <<>>
    ELSE LET cleaned == CleanTitle(adapter, Head(titles))
         IN IF cleaned # <<>> /\ Lower(cleaned) \notin Placeholders(adapter)
            THEN cleaned
            ELSE FirstCleanTitle(adapter, Tail(titles))

\* discover_course_name(cursor, course_id, domain)
discover_course_name(adapter, hist, course_id, domain) ==
    LET rows == Where(hist.urls,
                      {u \in {hist.urls[i] : i \in 1..Len(hist.urls)} :
                          /\ Like(CourseSpacePattern(adapter, course_id, domain), u.url)
                          /\ u.title # <<>>})
        order == DescOrder([i \in 1..Len(rows) |-> rows[i].last_visit_time])
        fetched == Limit([r \in 1..Len(rows) |-> rows[order[r]].title], TitleLimit)
    IN FirstCleanTitle(adapter, fetched)

----------------------------------------------------------------------------
\* The disk as the scan sees it.  A path is the sequence of its components.
\*   paths : the real paths that exist (files and directories)
\*   links : a function from top-level names to the paths they link to
\*   loop_error : what Path.resolve() does on a symbolic-link loop; it raises
\*       RuntimeError up to Python 3.12 and nothing from Python 3.13 on

\* follow the links of the first component; more hops than links is a loop
RECURSIVE FollowLinks(_, _, _)
FollowLinks(d, p, hops) ==
    IF p = <<>> \/ <<p[1]>> \notin DOMAIN d.links THEN [loop |-> FALSE, path |-> p]
    ELSE IF hops = 0 THEN [loop |-> TRUE, path |-> p]
    ELSE FollowLinks(d, d.links[<<p[1]>>] \o Tail(p), hops - 1)

RealPath(d, p) == FollowLinks(d, p, Cardinality(DOMAIN d.links))

\* Path.exists(): False on a loop (stat fails with ELOOP)
PathExists(d, p) == ~RealPath(d, p).loop /\ RealPath(d, p).path \in d.paths

\* Path.resolve()
Resolve(d, p) ==
    IF RealPath(d, p).loop THEN [err |-> d.loop_error, path |-> p]
    ELSE [err |-> NoErr, path |-> RealPath(d, p).path]

\* str(file_path).lower()
LowerPath(p) == [i \in 1..Len(p) |-> Lower(p[i])]

----------------------------------------------------------------------------
\* The scan (src/classifier.py)

ClassifiedFile(path, course_id, course_name, download_url, platform) ==
    [path |-> path, course_id |-> course_id, course_name |-> course_name,
     download_url |-> download_url, platform |-> platform, sub_type |-> "Other"]

NewCourse(course_id, suggested_name) ==
    [course_id |-> course_id, suggested_name |-> suggested_name]

NoMatch == [adapter |-> NoAdapter, domain |-> <<>>]

\* _resolve_adapter(url, platform_configs)
resolve_adapter(url, platform_configs) ==
    LET n == Len(platform_configs)
        first == {i \in 1..n :
                    /\ SubstringOf(platform_configs[i].domain, url)
                    /\ get_adapter(platform_configs[i].type) # NoAdapter
                    /\ matches_url(get_adapter(platform_configs[i].type), url,
                                   platform_configs[i].domain)}
        domain == Netloc(url)
        second == {i \in 1..n :
                    /\ \/ SubstringOf(platform_configs[i].domain, domain)
                       \/ SubstringOf(domain, platform_configs[i].domain)
                    /\ get_adapter(platform_configs[i].type) # NoAdapter}
        pick(S) == platform_configs[CHOOSE i \in S : \A j \in S : i <= j]
    IN IF first # {}
       THEN [adapter |-> get_adapter(pick(first).type), domain |-> pick(first).domain]
       ELSE IF domain = <<>> \/ second = {} THEN NoMatch
       ELSE [adapter |-> get_adapter(pick(second).type), domain |-> pick(second).domain]

\* course_id[:8] where the pieces of an id are whole within the first 8 characters
RECURSIVE TakeChars(_, _)
TakeChars(s, n) ==
    IF s = <<>> \/ Len(Head(s)) > n THEN <<>>
    ELSE <<Head(s)>> \o TakeChars(Tail(s), n - Len(Head(s)))

\* f"New Course ({course_id[:8]})"
FallbackName(course_id) == <<"New Course (">> \o TakeChars(course_id, 8) \o <<")">>

UnknownId == <<"unknown">>
UnknownCourse == <<"Unknown Course">>

\* the name cached for an id in `discovered`, a list of (course_id, name) in the
\* order of insertion
Cached(discovered, course_id) ==
    discovered[CHOOSE i \in 1..Len(discovered) : discovered[i].course_id = course_id].name

IsCached(discovered, course_id) ==
    \E i \in 1..Len(discovered) : discovered[i].course_id = course_id

\* Mutation of Naming: the configured mapping is not consulted.
Naming_ignores_config(st, adapter, course_id, domain, hist, courses) ==
    IF course_id # None
    THEN IF ~IsCached(st.discovered, course_id)
         THEN LET name == discover_course_name(adapter, hist, course_id, domain)
                  kept == IF name # <<>> THEN name ELSE FallbackName(course_id)
              IN [course_name |-> kept,
                  discovered |-> Append(st.discovered, [course_id |-> course_id, name |-> kept]),
                  calls |-> Append(st.calls, [adapter |-> adapter, course_id |-> course_id,
                                               domain |-> domain, returned |-> name])]
         ELSE [course_name |-> Cached(st.discovered, course_id),
               discovered |-> st.discovered, calls |-> st.calls]
    ELSE [course_name |-> UnknownCourse, discovered |-> st.discovered, calls |-> st.calls]

\* Mutation of Naming: an empty discovery result is not cached.
Naming_caches_found_only(st, adapter, course_id, domain, hist, courses) ==
    IF course_id # None /\ course_id \in DOMAIN courses
    THEN [course_name |-> courses[course_id], discovered |-> st.discovered, calls |-> st.calls]
    ELSE IF course_id # None
    THEN IF ~IsCached(st.discovered, course_id)
         THEN LET name == discover_course_name(adapter, hist, course_id, domain)
                  kept == IF name # <<>> THEN name ELSE FallbackName(course_id)
              IN [course_name |-> kept,
                  discovered |-> IF name # <<>>
                                 THEN Append(st.discovered,
                                             [course_id |-> course_id, name |-> kept])
                                 ELSE st.discovered,
                  calls |-> Append(st.calls, [adapter |-> adapter, course_id |-> course_id,
                                               domain |-> domain, returned |-> name])]
         ELSE [course_name |-> Cached(st.discovered, course_id),
               discovered |-> st.discovered, calls |-> st.calls]
    ELSE [course_name |-> UnknownCourse, discovered |-> st.discovered, calls |-> st.calls]

\* The naming of one record: the configured name, else the name discovered for
\* the id (once per scan), else "Unknown Course".  `calls` lists the calls of
\* discover_course_name made so far.
Naming(st, adapter, course_id, domain, hist, courses) ==
    IF course_id # None /\ course_id \in DOMAIN courses
    THEN [course_name |-> courses[course_id], discovered |-> st.discovered, calls |-> st.calls]
    ELSE IF course_id # None
    THEN IF ~IsCached(st.discovered, course_id)
         THEN LET name == discover_course_name(adapter, hist, course_id, domain)
                  kept == IF name # <<>> THEN name ELSE FallbackName(course_id)
              IN [course_name |-> kept,
                  discovered |-> Append(st.discovered, [course_id |-> course_id, name |-> kept]),
                  calls |-> Append(st.calls, [adapter |-> adapter, course_id |-> course_id,
                                               domain |-> domain, returned |-> name])]
         ELSE [course_name |-> Cached(st.discovered, course_id),
               discovered |-> st.discovered, calls |-> st.calls]
    ELSE [course_name |-> UnknownCourse, discovered |-> st.discovered, calls |-> st.calls]


\* the rows _query_downloads fetches: the downloads whose tab URL or referrer
\* is LIKE %domain% for a configured domain, by descending start time
FetchedRows(hist, platform_configs) ==
    LET rows == Where(hist.downloads,
                      {r \in {hist.downloads[i] : i \in 1..Len(hist.downloads)} :
                          \E k \in 1..Len(platform_configs) :
                              \/ Like(<<platform_configs[k].domain>>, r.tab_url)
                              \/ Like(<<platform_configs[k].domain>>, r.referrer)})
        order == DescOrder([i \in 1..Len(rows) |-> rows[i].start_time])
    IN [r \in 1..Len(rows) |-> rows[order[r]]]

\* the exceptions the location filter catches
CaughtByFilter == {"OSError", "ValueError"}

QueryStart ==
    [seen_paths |-> {}, results |-> <<>>, discovered |-> <<>>, calls |-> <<>>,
     raised |-> NoErr]

\* one iteration of the loop over the fetched rows
QueryStep(st, row, hist, cfg, d) ==
    LET file_path == row.target_path
        path_key == LowerPath(file_path)
        Classified(adapter, course_id, named) ==
            [st EXCEPT
               !.seen_paths = @ \cup {path_key},
               !.results = Append(@, ClassifiedFile(file_path,
                                       IF course_id # None THEN course_id ELSE UnknownId,
                                       named.course_name, row.tab_url, adapter)),
               !.discovered = named.discovered,
               !.calls = named.calls]
        Named(adapter, domain, course_id) ==
            Classified(adapter, course_id,
                       Naming(st, adapter, course_id, domain, hist, cfg.courses))
        Inferred(adapter, domain, from_urls) ==
            Named(adapter, domain,
                  IF from_urls # None THEN from_urls
                  ELSE infer_course_from_visits(adapter, hist, row.start_time, domain))
        Extracted(adapter, domain, from_tab) ==
            Inferred(adapter, domain,
                     IF from_tab # None THEN from_tab
                     ELSE extract_course_id(adapter, row.referrer))
        Matched(resolved) ==
            IF resolved = NoMatch THEN [st EXCEPT !.seen_paths = @ \cup {path_key}]
            ELSE Extracted(resolved.adapter, resolved.domain,
                           extract_course_id(resolved.adapter, row.tab_url))
        ByTab(by_tab) ==
            Matched(IF by_tab # NoMatch THEN by_tab
                    ELSE resolve_adapter(row.referrer, cfg.platforms))
        Located(parent, ddir) ==
            IF parent.err \in CaughtByFilter THEN st
            ELSE IF parent.err # NoErr THEN [st EXCEPT !.raised = parent.err]
            ELSE IF ddir.err \in CaughtByFilter THEN st
            ELSE IF ddir.err # NoErr THEN [st EXCEPT !.raised = ddir.err]
            ELSE IF parent.path # ddir.path THEN st
            ELSE IF path_key \in st.seen_paths THEN st
            ELSE ByTab(resolve_adapter(row.tab_url, cfg.platforms))
    IN IF st.raised # NoErr THEN st
       ELSE IF ~PathExists(d, file_path) THEN st
       ELSE Located(Resolve(d, Parent(file_path)), Resolve(d, cfg.download_dir))

RECURSIVE QueryLoop(_, _, _, _, _)
QueryLoop(st, rows, hist, cfg, d) ==
    IF rows = <<>> THEN st
    ELSE QueryLoop(QueryStep(st, Head(rows), hist, cfg, d), Tail(rows), hist, cfg, d)

\* _query_downloads: the classified files and the new courses, or the exception
\* that leaves the loop
query_downloads(hist, cfg, d) ==
    LET Returned(st) ==
            [raised |-> st.raised,
             results |-> IF st.raised = NoErr THEN st.results ELSE <<>>,
             new_courses |-> IF st.raised = NoErr
                             THEN [i \in 1..Len(st.discovered) |->
                                      NewCourse(st.discovered[i].course_id,
                                                st.discovered[i].name)]
                             ELSE <<>>,
             calls |-> st.calls]
    IN Returned(QueryLoop(QueryStart, FetchedRows(hist, cfg.platforms), hist, cfg, d))


----------------------------------------------------------------------------
\* classify_batch (src/llm.py).  The reply of the service is `ok` (the request
\* succeeded) and the lines of the answer.

VALID_CATEGORIES == {"Lectures", "Tutorials", "Assignments", "Other"}

\* cat.lower() and cat.lower().rstrip("s") for the words the model uses
LowerWord(w) ==
    CASE w = "Lectures" -> "lectures" [] w = "Tutorials" -> "tutorials"
      [] w = "Assignments" -> "assignments" [] w = "Other" -> "other"
      [] w = "Lecture" -> "lecture" [] OTHER -> w

RStripS(w) ==
    CASE w = "lectures" -> "lecture" [] w = "tutorials" -> "tutorial"
      [] w = "assignments" -> "assignment" [] OTHER -> w

RECURSIVE RStripChars(_, _)
RStripChars(s, chars) ==
    IF s # <<>> /\ s[Len(s)] \in chars THEN RStripChars(SubSeq(s, 1, Len(s) - 1), chars) ELSE s

RECURSIVE LStripChars(_, _)
LStripChars(s, chars) ==
    IF s # <<>> /\ Head(s) \in chars THEN LStripChars(Tail(s), chars) ELSE s

\* _normalise(text)
normalise(text) ==
    LET cleaned == Strip(RStripChars(Strip(text), {"."}))
        word == IF Len(cleaned) = 1 THEN cleaned[1] ELSE ""
        cats == {cat \in VALID_CATEGORIES :
                    \/ LowerWord(word) = LowerWord(cat)
                    \/ LowerWord(word) = RStripS(LowerWord(cat))}
    IN IF Len(cleaned) = 1 /\ word \in VALID_CATEGORIES THEN word
       ELSE IF Len(cleaned) = 1 /\ cats # {} THEN CHOOSE cat \in cats : TRUE
       ELSE "Other"

\* the label parsed from one non-empty line of the answer
ParseLine(line) ==
    LET n == RunLen(line, 1, DigitPieces)
    IN IF n = Len(line) THEN "Other"
       ELSE normalise(Strip(LStripChars(SubSeq(line, n + 1, Len(line)),
                                        {".", ")", ":", "-", " "})))

RECURSIVE ParseLines(_)
ParseLines(lines) ==
    IF lines = <<>> THEN <<>>
    ELSE (IF Strip(Head(lines)) = <<>> THEN <<>> ELSE <<ParseLine(Strip(Head(lines)))>>)
         \o ParseLines(Tail(lines))

\* the request failed: a transport error, an HTTP error status, a body that is
\* not the expected JSON
NoReply == [ok |-> FALSE, lines |-> <<>>]

\* Faulty variant of classify_batch: a short answer is not padded.
classify_batch_no_padding(filenames, api_key, reply) ==
    LET n == Len(filenames)
        parsed == ParseLines(reply.lines)
    IN IF api_key = "" \/ n = 0 \/ ~reply.ok THEN [i \in 1..n |-> "Other"]
       ELSE SubSeq(parsed, 1, IF Len(parsed) < n THEN Len(parsed) ELSE n)

\* classify_batch(filenames, api_key)
classify_batch(filenames, api_key, reply) ==
    LET n == Len(filenames)
        parsed == ParseLines(reply.lines)
    IN IF api_key = "" \/ n = 0 \/ ~reply.ok THEN [i \in 1..n |-> "Other"]
       ELSE [i \in 1..n |-> IF i <= Len(parsed) THEN parsed[i] ELSE "Other"]

\* Faulty variant of the cleanup: the unlink follows the query instead of
\* standing in a finally clause, so an exception leaves the copy behind.
tmp_left_unlink_after_query(raised) == raised # NoErr

\* `finally: tmp_path.unlink(missing_ok=True)`: whether the temporary file
\* exists after the try statement that was left with `raised`
tmp_left(raised) == FALSE

\* scan_downloads(config): nothing without a history file or without platforms;
\* a temporary file is created, the history is copied onto it (copy_ok: the
\* copy succeeds), the copy is queried and the temporary file removed, and the
\* sub-types come from classify_batch when an API key is configured.  `created`
\* tells whether the temporary file was made, `copied` whether the query ran
\* on a copy, `tmp_left` whether the temporary file exists when the call ends.
ScanDownloadsResult(hist, cfg, d, copy_ok, reply) ==
    LET empty == [raised |-> NoErr, results |-> <<>>, new_courses |-> <<>>, calls |-> <<>>,
                  created |-> hist.exists /\ cfg.platforms # <<>>,
                  copied |-> hist.exists /\ cfg.platforms # <<>> /\ copy_ok,
                  tmp_left |-> FALSE,
                  asked |-> <<>>, reply |-> NoReply, categories |-> <<>>]
        Labelled(q, categories) ==
            [empty EXCEPT !.results = [i \in 1..Len(q.results) |->
                                          IF i <= Len(categories)
                                          THEN [q.results[i] EXCEPT !.sub_type = categories[i]]
                                          ELSE q.results[i]],
                          !.new_courses = q.new_courses, !.calls = q.calls,
                          !.tmp_left = tmp_left(NoErr),
                          !.asked = [i \in 1..Len(q.results) |-> Name(q.results[i].path)],
                          !.reply = reply,
                          !.categories = categories]
        Queried(q) ==
            IF q.raised # NoErr
            THEN [empty EXCEPT !.raised = q.raised, !.calls = q.calls,
                               !.tmp_left = tmp_left(q.raised)]
            ELSE IF q.results # <<>> /\ cfg.groq_api_key # ""
            THEN Labelled(q, classify_batch([i \in 1..Len(q.results) |->
                                                Name(q.results[i].path)],
                                            cfg.groq_api_key, reply))
            ELSE [empty EXCEPT !.results = q.results, !.new_courses = q.new_courses,
                               !.calls = q.calls, !.tmp_left = tmp_left(NoErr)]
    IN IF ~hist.exists THEN empty
       ELSE IF cfg.platforms = <<>> THEN empty
       ELSE IF ~copy_ok
       THEN [empty EXCEPT !.raised = "OSError", !.tmp_left = tmp_left("OSError")]
       ELSE Queried(query_downloads(hist, cfg, d))


----------------------------------------------------------------------------
\* The histories, configurations and disks the scan starts from

MaxRows == 2

\* domains and URLs
DomCanvas == <<"canvas.", "school.edu">>
DomMoodle == <<"moodle.", "school.edu">>
DomSchool == <<"school.edu">>
DomInsendi == <<"insendi", ".com">>
DomCdn == <<"cdn.net">>

Url(domain, rest) == <<"https://">> \o domain \o rest

Course7Files == <<"/courses/", "7", "/files">>
Course8 == <<"/courses/", "8">>
Course7 == <<"/courses/", "7">>
CourseSearch == <<"/courses/", "search">>
CourseUnknown == <<"/courses/", "unknown", "/files">>
MoodleCourse3 == <<"/course/", "view", ".php?id=", "3">>
Opaque == <<"/download">>

\* (tab URL, referrer) of the downloads
TabRefs ==
    { <<Url(DomCanvas, Course7Files), <<>> >>,
      <<Url(DomCanvas, Opaque), <<>> >>,
      <<Url(DomSchool, Opaque), Url(DomMoodle, MoodleCourse3)>>,
      <<Url(DomSchool, Course7Files), <<>> >>,
      <<Url(DomInsendi, CourseUnknown), <<>> >>,
      <<Url(DomInsendi, Opaque), <<>> >>,
      <<Url(DomCdn, Opaque), Url(DomCanvas, Course8)>> }

\* names of directories and files
Downloads == <<"Downloads">>
DownloadsLink == <<"DL">>
LoopLink == <<"loop">>
Documents == <<"Documents">>
SubDir == <<"sub">>
FileA == <<"A", ".pdf">>
FileALower == <<"a", ".pdf">>
FileB == <<"b", ".pdf">>

\* Downloads holds A.pdf, b.pdf and a directory sub with A.pdf in it; Documents
\* holds A.pdf; DL is a link to Downloads and loop a link to itself.
ScanDisk(loop_error) ==
    [paths |-> {<<Downloads>>, <<Downloads, FileA>>, <<Downloads, FileB>>,
                <<Downloads, SubDir>>, <<Downloads, SubDir, FileA>>,
                <<Documents>>, <<Documents, FileA>>},
     links |-> (<<DownloadsLink>> :> <<Downloads>>) @@ (<<LoopLink>> :> <<LoopLink>>),
     loop_error |-> loop_error]

\* the target paths of the downloads: in Downloads, and for the first (tab,
\* referrer) also through the link, in another case, in sub and in Documents
TabRefTargets ==
    (TabRefs \X {<<Downloads, FileA>>, <<Downloads, FileB>>})
    \cup ({<<Url(DomCanvas, Course7Files), <<>> >>}
            \X {<<DownloadsLink, FileA>>, <<Downloads, FileALower>>,
                <<Downloads, SubDir, FileA>>, <<Documents, FileA>>})

\* the downloads tables: row i started at time 2 * i
RECURSIVE DownloadTables(_)
DownloadTables(n) ==
    IF n = 0 THEN {<<>>}
    ELSE LET shorter == DownloadTables(n - 1)
         IN shorter \cup
            {Append(t, [tab_url |-> x[1][1], referrer |-> x[1][2], target_path |-> x[2],
                        start_time |-> 2 * (Len(t) + 1)]) :
                 t \in {s \in shorter : Len(s) = n - 1}, x \in TabRefTargets}

\* the page visits: (URL, title, visit time)
PageTitle(url) ==
    CASE url = Url(DomCanvas, Course7) -> <<"Intro to Algorithms", " ", "-", " ", "Files">>
      [] url = Url(DomCanvas, Course8) -> <<"Loading">>
      [] url = Url(DomCanvas, CourseSearch) -> <<"Canvas">>
      [] OTHER -> <<>>

VisitLists ==
    { <<>>,
      << <<Url(DomCanvas, Course7), 1>> >>,
      << <<Url(DomCanvas, Course7), 1>>, <<Url(DomCanvas, CourseSearch), 2>> >>,
      << <<Url(DomCanvas, Course7), 1>>, <<Url(DomCanvas, Course8), 3>> >> }

\* the History database after the visits of a list (one urls row per visit; every
\* list visits a URL once, so last_visit_time is the time of that visit)
History(downloads, visited) ==
    [exists |-> TRUE,
     downloads |-> downloads,
     urls |-> [i \in 1..Len(visited) |->
                  [id |-> i, url |-> visited[i][1], title |-> PageTitle(visited[i][1]),
                   last_visit_time |-> visited[i][2]]],
     visits |-> [i \in 1..Len(visited) |-> [url |-> i, visit_time |-> visited[i][2]]]]

Platform(domain, type) == [domain |-> domain, type |-> type]

PlatformLists ==
    { <<Platform(DomCanvas, "canvas")>>,
      <<Platform(DomCanvas, "canvas"), Platform(DomMoodle, "moodle")>>,
      <<Platform(DomSchool, "generic")>>,
      <<Platform(DomSchool, "generic"), Platform(DomCanvas, "canvas")>>,
      <<Platform(DomInsendi, "insendi")>> }

CourseMaps == {NoCourses, (<<"7">> :> <<"Algorithms I">>)}

Config(download_dir, platforms, courses, key) ==
    [download_dir |-> download_dir, platforms |-> platforms, courses |-> courses,
     groq_api_key |-> key]

\* the replies of the classification service
Replies ==
    { NoReply,
      [ok |-> TRUE, lines |-> << <<"1", ".", " ", "Lecture">> >>],
      [ok |-> TRUE, lines |-> << <<"1", ".", " ", "Lectures">>,
                                 <<" ", "2", ")", " ", "tutorial", ".">>,
                                 <<"3", ":", " ", "Assignments">> >>],
      [ok |-> TRUE, lines |-> << <<"1", "2">>, <<" ">>, <<"x", ".", " ", "Slides">> >>] }

\* Before a scan: a history with up to MaxRows downloads; the downloads
\* directory is Downloads, or (with one platform, no course configured) the
\* link loop; a history file that is absent, no platform, or an API key, with
\* the first platform list and no visits.
ScanInit ==
    /\ fs = [dirs |-> {}, files |-> <<>>]
    /\ undo_stack = <<>>
    /\ tags = <<>>
    /\ last = NoCall
    /\ nPush = 0
    /\ nPairs = 0
    /\ nExt = 0
    /\ out = NoOut
    /\ ui = NoUi
    /\ \E downloads \in DownloadTables(MaxRows) :
          \/ /\ \E visited \in VisitLists : history = History(downloads, visited)
             /\ \E platforms \in PlatformLists, courses \in CourseMaps :
                   config = Config(<<Downloads>>, platforms, courses, "")
             /\ disk = ScanDisk("RuntimeError")
          \/ /\ history = History(downloads, <<>>)
             /\ config = Config(<<LoopLink>>, <<Platform(DomCanvas, "canvas")>>, NoCourses, "")
             /\ \E loop_error \in {"RuntimeError", NoErr} : disk = ScanDisk(loop_error)
          \/ /\ history \in {History(downloads, <<>>),
                             [History(downloads, <<>>) EXCEPT !.exists = FALSE]}
             /\ \E platforms \in {<<>>, <<Platform(DomCanvas, "canvas")>>},
                   key \in {"", "key"} :
                   config = Config(<<Downloads>>, platforms, NoCourses, key)
             /\ disk = ScanDisk("RuntimeError")

\* scan_downloads(config)
ScanDownloads(copy_ok, reply) ==
    /\ out.op = "none"
    /\ out' = [op |-> "scan_downloads"]
                 @@ ScanDownloadsResult(history, config, disk, copy_ok, reply)
    /\ UNCHANGED <<history, config, disk, ui>>
    /\ UNCHANGED fileVars

ScanNext == \E copy_ok \in BOOLEAN, reply \in Replies : ScanDownloads(copy_ok, reply)

ScanSpec == ScanInit /\ [][ScanNext]_vars


----------------------------------------------------------------------------
\* What the claims about the scan speak about

\* a scan has returned its two lists
Scanned == out.op = "scan_downloads" /\ out.raised = NoErr /\ out.copied

\* the download records the scan examines, most recent first
Examined == FetchedRows(history, config.platforms)

\* the case-insensitive canonical form of an absolute path
CanonicalKey(p) == LowerPath(RealPath(disk, p).path)

\* the examined records a classified file can come from
SourceRows(cf) ==
    {k \in 1..Len(Examined) :
        Examined[k].target_path = cf.path /\ Examined[k].tab_url = cf.download_url}

\* the examined records that pass the existence and location filters
Admitted ==
    {k \in 1..Len(Examined) :
        /\ PathExists(disk, Examined[k].target_path)
        /\ RealPath(disk, Parent(Examined[k].target_path)).path
              = RealPath(disk, config.download_dir).path}

\* C11 (Deduplication): among the examined records whose target paths have the
\* same case-insensitive canonical form at most one is in the classified output,
\* and the one that is in it has the latest start time among them.
C11_Deduplication ==
    Scanned =>
        /\ \A i, j \in 1..Len(out.results) :
              i # j => CanonicalKey(out.results[i].path) # CanonicalKey(out.results[j].path)
        /\ \A i \in 1..Len(out.results) :
              \E k \in SourceRows(out.results[i]) :
                  \A q \in 1..Len(Examined) :
                      CanonicalKey(Examined[q].target_path) = CanonicalKey(out.results[i].path)
                          => Examined[q].start_time <= Examined[k].start_time


\* C12 (Admission filter): a scan that could copy the history raises nothing,
\* and every classified file existed when its record was examined and lies in a
\* directory that resolves to the configured downloads directory itself; records
\* of missing files, of files elsewhere and of unresolvable paths are left out.
C12_AdmissionFilter ==
    out.op = "scan_downloads" /\ out.copied =>
        /\ out.raised = NoErr
        /\ \A i \in 1..Len(out.results) :
              /\ PathExists(disk, out.results[i].path)
              /\ ~RealPath(disk, config.download_dir).loop
              /\ RealPath(disk, Parent(out.results[i].path)).path
                    = RealPath(disk, config.download_dir).path


\* the configured platforms whose domain is a substring of a URL
DomainIn(url) ==
    {i \in 1..Len(config.platforms) : SubstringOf(config.platforms[i].domain, url)}

\* the URL of a record that selects its platform: the tab URL when a configured
\* domain is in it, else the referrer
SelectingUrl(row) == IF DomainIn(row.tab_url) # {} THEN row.tab_url ELSE row.referrer

\* C13 (Adapter resolution order): every classified file comes from a record
\* for which a configured domain is a substring of the tab URL or, when none is,
\* of the referrer, and its platform is that of the first configured platform,
\* in the order of the list, whose domain is in that URL.
C13_ResolutionOrder ==
    Scanned =>
        \A i \in 1..Len(out.results) :
            \E k \in SourceRows(out.results[i]) :
                LET matching == DomainIn(SelectingUrl(Examined[k]))
                    first == CHOOSE m \in matching : \A n \in matching : m <= n
                IN /\ matching # {}
                   /\ get_adapter(config.platforms[first].type) # NoAdapter
                        => out.results[i].platform = get_adapter(config.platforms[first].type)


----------------------------------------------------------------------------
\* GenericAdapter (src/platforms/generic.py)

GenericName == "Generic"

\* _HEURISTIC_PATTERNS: the markers each pattern accepts before the identifier
HEURISTIC_PATTERNS ==
    << {<<"/course/">>, <<"/courses/">>},
       {<<"/class/">>, <<"/classes/">>},
       {<<"/section/">>, <<"/sections/">>},
       {<<"?course_id=">>, <<"&course_id=">>, <<"?courseid=">>, <<"&courseid=">>} >>

\* pattern.search(url) for one heuristic pattern: group 1 of the leftmost match
HeuristicSearch(markers, url) ==
    LET at == {i \in 1..Len(url) :
                  \E m \in markers : SearchGroup(m, WordPieces, SubSeq(url, i, Len(url))) # None
                                     /\ SubSeq(url, i, i + Len(m) - 1) = m}
    IN IF at = {} THEN None
       ELSE LET i == CHOOSE k \in at : \A j \in at : k <= j
                m == CHOOSE x \in markers : SubSeq(url, i, i + Len(x) - 1) = x
            IN SubSeq(url, i + Len(m), i + Len(m) + RunLen(url, i + Len(m), WordPieces) - 1)

\* GenericAdapter.extract_course_id(url): the first pattern that matches
generic_extract_course_id(url) ==
    LET hits == {p \in 1..Len(HEURISTIC_PATTERNS) :
                    HeuristicSearch(HEURISTIC_PATTERNS[p], url) # None}
    IN IF hits = {} THEN None
       ELSE HeuristicSearch(HEURISTIC_PATTERNS[CHOOSE p \in hits : \A q \in hits : p <= q], url)

\* the examined records no other examined record shares its path key with
Alone ==
    {k \in 1..Len(Examined) :
        \A q \in 1..Len(Examined) :
            LowerPath(Examined[q].target_path) = LowerPath(Examined[k].target_path) => q = k}

\* C14 (Generic fallback): an admitted record whose tab URL holds the domain of
\* a configured platform, the first such platform being of a type without a
\* dedicated adapter, is in the classified output with platform "Generic" and,
\* when a heuristic pattern finds an identifier in its tab URL or referrer, with
\* that identifier as course id.
C14_GenericFallback ==
    Scanned =>
        \A k \in Admitted \cap Alone :
            LET row == Examined[k]
                matching == DomainIn(row.tab_url)
                first == CHOOSE m \in matching : \A n \in matching : m <= n
                by_tab == generic_extract_course_id(row.tab_url)
                found == IF by_tab # None THEN by_tab
                         ELSE generic_extract_course_id(row.referrer)
            IN matching # {} /\ get_adapter(config.platforms[first].type) = NoAdapter =>
                  \E i \in 1..Len(out.results) :
                      /\ out.results[i].path = row.target_path
                      /\ out.results[i].platform = GenericName
                      /\ found # None => out.results[i].course_id = found


\* the classified files whose course id is a key of the configured mapping
Mapped == {i \in 1..Len(out.results) : out.results[i].course_id \in DOMAIN config.courses}

\* C15 (Configured names take precedence): a classified file whose course id is
\* a key of the configured mapping carries the configured name, no call of
\* discover_course_name was made for that id, and no new course has that id.
C15_ConfiguredNames ==
    Scanned =>
        \A i \in Mapped :
            LET id == out.results[i].course_id
            IN /\ out.results[i].course_name = config.courses[id]
               /\ \A c \in 1..Len(out.calls) : out.calls[c].course_id # id
               /\ \A n \in 1..Len(out.new_courses) : out.new_courses[n].course_id # id

\* a file of a mapped course whose pages in the history also give a name
C15_Witness ==
    /\ Scanned
    /\ \E i \in Mapped :
          /\ discover_course_name(out.results[i].platform, history,
                                  out.results[i].course_id, DomCanvas) # <<>>
          /\ out.results[i].course_name = config.courses[out.results[i].course_id]


\* C16 (Discovery caching): within one scan no two calls of
\* discover_course_name are made for the same course id, however many classified
\* files have that id and whatever the first call returned.
C16_DiscoveryCaching ==
    out.op = "scan_downloads" =>
        \A c, e \in 1..Len(out.calls) :
            out.calls[c].course_id = out.calls[e].course_id => c = e

\* two classified files of one unmapped course, one call for it, which
\* returned the empty string
C16_Witness ==
    /\ Scanned
    /\ \E i, j \in 1..Len(out.results) :
          /\ i # j
          /\ out.results[i].course_id = out.results[j].course_id
          /\ out.results[i].course_id \notin DOMAIN config.courses
          /\ \E c \in 1..Len(out.calls) :
                /\ out.calls[c].course_id = out.results[i].course_id
                /\ out.calls[c].returned = <<>>


\* the adapter and the domain the scan uses for a record
Resolved(row) ==
    IF resolve_adapter(row.tab_url, config.platforms) # NoMatch
    THEN resolve_adapter(row.tab_url, config.platforms)
    ELSE resolve_adapter(row.referrer, config.platforms)

\* the visits, at or before the start of a record's download, to pages on the
\* record's domain whose URL holds a course id
CourseVisits(row) ==
    {v \in 1..Len(history.visits) :
        /\ history.visits[v].visit_time <= row.start_time
        /\ \E u \in 1..Len(history.urls) : history.urls[u].id = history.visits[v].url
        /\ SubstringOf(Resolved(row).domain, UrlOfVisit(history, history.visits[v]))
        /\ extract_course_id(Resolved(row).adapter,
                             UrlOfVisit(history, history.visits[v])) # None}

\* C17 (Visit inference): a classified file whose record has no course id in
\* its tab URL nor in its referrer has the id of the most recent visit, not
\* later than the download, to a course page of its domain, and the id
\* "unknown" only when there is no such visit.
C17_VisitInference ==
    Scanned =>
        \A i \in 1..Len(out.results) :
            \E k \in SourceRows(out.results[i]) :
                LET row == Examined[k]
                    adapter == Resolved(row).adapter
                    earlier == CourseVisits(row)
                    latest == CHOOSE v \in earlier :
                                 \A w \in earlier :
                                    history.visits[w].visit_time <= history.visits[v].visit_time
                IN extract_course_id(adapter, row.tab_url) = None
                   /\ extract_course_id(adapter, row.referrer) = None
                   => out.results[i].course_id =
                         IF earlier = {} THEN UnknownId
                         ELSE extract_course_id(adapter,
                                                UrlOfVisit(history, history.visits[latest]))


\* the course id the scan resolves for a record: from the tab URL, the referrer
\* or the visits; None when all three fail
ResolvedId(row) ==
    LET adapter == Resolved(row).adapter
    IN IF extract_course_id(adapter, row.tab_url) # None
       THEN extract_course_id(adapter, row.tab_url)
       ELSE IF extract_course_id(adapter, row.referrer) # None
       THEN extract_course_id(adapter, row.referrer)
       ELSE infer_course_from_visits(adapter, history, row.start_time, Resolved(row).domain)

\* C18 (Unknown sentinel): an admitted record of a configured platform for
\* which no course id is resolved is in the classified output with course id
\* "unknown" and course name "Unknown Course", and no classified file with
\* course id "unknown" has a new course of that id.
C18_UnknownSentinel ==
    Scanned =>
        /\ \A k \in Admitted \cap Alone :
              Resolved(Examined[k]) # NoMatch /\ ResolvedId(Examined[k]) = None =>
                 \E i \in 1..Len(out.results) :
                     /\ out.results[i].path = Examined[k].target_path
                     /\ out.results[i].course_id = UnknownId
                     /\ out.results[i].course_name = UnknownCourse
        /\ \A i \in 1..Len(out.results), n \in 1..Len(out.new_courses) :
              out.results[i].course_id = UnknownId
                  => out.new_courses[n].course_id # out.results[i].course_id


----------------------------------------------------------------------------
\* discover_course_name on its own: the urls tables it is applied to

MaxUrls == 6

\* the titles of the pages
PageTitles ==
    { <<"Loading">>,
      <<"Intro to Algorithms", " ", "-", " ", "Files">>,
      <<"Other Course">>,
      <<>> }

\* the URL of the i-th page of a table: a page of Canvas course 7, a page of
\* Moodle course 7, pages of the Canvas courses 7 and 77 in turn, or pages of
\* the Canvas courses 7 and 8 in turn
PageUrl(layout, i) ==
    CASE layout = "canvas" -> Url(DomCanvas, <<"/courses/", "7", "/pages/">>)
      [] layout = "moodle" -> Url(DomMoodle, <<"/course/", "view", ".php?id=", "7", "&page=">>)
      [] layout = "longer" ->
            Url(DomCanvas, IF i % 2 = 1 THEN <<"/courses/", "7", "/pages/">>
                           ELSE <<"/courses/", "7", "7", "/pages/">>)
      [] OTHER -> Url(DomCanvas, <<"/courses/", IF i % 2 = 1 THEN "7" ELSE "8", "/pages/">>)

PageLayouts == {"canvas", "moodle", "longer", "mixed"}

\* the lists of at most n titles
RECURSIVE TitleLists(_)
TitleLists(n) ==
    IF n = 0 THEN {<<>>}
    ELSE LET shorter == TitleLists(n - 1)
         IN shorter \cup {Append(t, x) : t \in {s \in shorter : Len(s) = n - 1},
                                         x \in PageTitles}

\* the urls table of a list of titles: page i was last visited at time i
UrlsTable(layout, titles) ==
    [i \in 1..Len(titles) |->
        [id |-> i, url |-> PageUrl(layout, i) \o Dec(i),
         title |-> titles[i], last_visit_time |-> i]]

DiscoverInit ==
    /\ fs = [dirs |-> {}, files |-> <<>>]
    /\ undo_stack = <<>>
    /\ tags = <<>>
    /\ last = NoCall
    /\ nPush = 0
    /\ nPairs = 0
    /\ nExt = 0
    /\ config = NoConfig
    /\ disk = NoDisk
    /\ out = NoOut
    /\ ui = NoUi
    /\ \E layout \in PageLayouts, titles \in TitleLists(MaxUrls) :
          history = [exists |-> TRUE, downloads |-> <<>>,
                     urls |-> UrlsTable(layout, titles), visits |-> <<>>]

\* adapter.discover_course_name(cursor, course_id, domain)
Discover(adapter, course_id, domain) ==
    /\ out.op = "none"
    /\ out' = [op |-> "discover_course_name", adapter |-> adapter, course_id |-> course_id,
               domain |-> domain,
               returned |-> discover_course_name(adapter, history, course_id, domain)]
    /\ UNCHANGED <<history, config, disk, ui>>
    /\ UNCHANGED fileVars

DiscoverNext ==
    \E course_id \in {<<"7">>, <<"8">>} :
        \/ Discover("Canvas", course_id, DomCanvas)
        \/ Discover("Moodle", course_id, DomMoodle)

DiscoverSpec == DiscoverInit /\ [][DiscoverNext]_vars

\* the titled pages under the URL space of the course asked for whose cleaned
\* title is a name
NamedPages ==
    {u \in 1..Len(history.urls) :
        /\ Like(CourseSpacePattern(out.adapter, out.course_id, out.domain), history.urls[u].url)
        /\ history.urls[u].title # <<>>
        /\ CleanTitle(out.adapter, history.urls[u].title) # <<>>
        /\ Lower(CleanTitle(out.adapter, history.urls[u].title)) \notin Placeholders(out.adapter)}

\* C19 (Name discovery result): discover_course_name returns the cleaned title
\* of the most recently visited page, among the titled pages under the course's
\* URL space whose cleaned title is a name, and the empty string only when
\* there is no such page.
C19_DiscoveryResult ==
    out.op = "discover_course_name" =>
        IF NamedPages = {} THEN out.returned = <<>>
        ELSE LET latest == CHOOSE u \in NamedPages :
                              \A w \in NamedPages :
                                 history.urls[w].last_visit_time
                                    <= history.urls[u].last_visit_time
             IN out.returned = CleanTitle(out.adapter, history.urls[latest].title)


----------------------------------------------------------------------------
\* PlatformDetector (src/platforms/detector.py)

DetectedPlatform(domain, adapter, download_count) ==
    [domain |-> domain, platform_type |-> LowerPiece(adapter), adapter |-> adapter,
     download_count |-> download_count]

\* the URLs the loop of detect_from_history goes through: of every row with a
\* tab URL or a referrer, the tab URL and then the referrer, those that are
\* empty or without a netloc left out
RECURSIVE CountedUrls(_)
CountedUrls(downloads) ==
    IF downloads = <<>> THEN <<>>
    ELSE LET row == Head(downloads)
             of_row == Where(<<row.tab_url, row.referrer>>,
                             {u \in {row.tab_url, row.referrer} :
                                 u # <<>> /\ Netloc(u) # <<>>})
         IN of_row \o CountedUrls(Tail(downloads))

\* the keys of domain_urls in the order of their insertion
RECURSIVE InsertionOrder(_, _)
InsertionOrder(urls, seen) ==
    IF urls = <<>> THEN <<>>
    ELSE IF Netloc(Head(urls)) \in seen THEN InsertionOrder(Tail(urls), seen)
    ELSE <<Netloc(Head(urls))>> \o InsertionOrder(Tail(urls), seen \cup {Netloc(Head(urls))})

\* _domain_matches(domain, urls, adapter)
domain_matches(domain, urls, adapter) ==
    \E f \in 1..Len(url_fingerprints(adapter)) :
        \/ SubstringOf(url_fingerprints(adapter)[f], domain)
        \/ \E url \in urls : SubstringOf(url_fingerprints(adapter)[f], url)

\* Mutation of detect_from_history: the last adapter that matches wins.
detect_from_history_last_match(hist) ==
    LET counted == CountedUrls(hist.downloads)
        domain_urls(domain) == {counted[i] : i \in {j \in 1..Len(counted) :
                                                       Netloc(counted[j]) = domain}}
        domain_counts(domain) == Cardinality({j \in 1..Len(counted) :
                                                 Netloc(counted[j]) = domain})
        domains == InsertionOrder(counted, {})
        matching(domain) == {a \in 1..Len(ALL_ADAPTERS) :
                                domain_matches(domain, domain_urls(domain), ALL_ADAPTERS[a])}
        matched == Where(domains, {d \in {domains[i] : i \in 1..Len(domains)} :
                                      matching(d) # {}})
        results == [i \in 1..Len(matched) |->
                       DetectedPlatform(matched[i],
                           ALL_ADAPTERS[CHOOSE a \in matching(matched[i]) :
                                           \A b \in matching(matched[i]) : a >= b],
                           domain_counts(matched[i]))]
        order == DescOrder([i \in 1..Len(results) |-> results[i].download_count])
    IN [r \in 1..Len(results) |-> results[order[r]]]

\* detect_from_history(cursor)
detect_from_history(hist) ==
    LET counted == CountedUrls(hist.downloads)
        domain_urls(domain) == {counted[i] : i \in {j \in 1..Len(counted) :
                                                       Netloc(counted[j]) = domain}}
        domain_counts(domain) == Cardinality({j \in 1..Len(counted) :
                                                 Netloc(counted[j]) = domain})
        domains == InsertionOrder(counted, {})
        matching(domain) == {a \in 1..Len(ALL_ADAPTERS) :
                                domain_matches(domain, domain_urls(domain), ALL_ADAPTERS[a])}
        matched == Where(domains, {d \in {domains[i] : i \in 1..Len(domains)} :
                                      matching(d) # {}})
        results == [i \in 1..Len(matched) |->
                       DetectedPlatform(matched[i],
                           ALL_ADAPTERS[CHOOSE a \in matching(matched[i]) :
                                           \A b \in matching(matched[i]) : a <= b],
                           domain_counts(matched[i]))]
        order == DescOrder([i \in 1..Len(results) |-> results[i].download_count])
    IN [r \in 1..Len(results) |-> results[order[r]]]

\* The downloads tables detection is applied to

MaxDownloads == 3

DomA == <<"a", ".", "instructure", ".com">>
DomB == <<"b", ".", "instructure", ".com">>

\* the tab URLs and referrers: pages of two Canvas sites, a Moodle file, a
\* Canvas file link on the Moodle site, a page of no platform, and none
DetectUrls ==
    { Url(DomA, Course7Files), Url(DomB, Course8),
      Url(DomMoodle, <<"/pluginfile.php/", "1">>),
      Url(DomMoodle, <<"/download?download_frd=", "1">>),
      Url(DomCdn, Opaque), <<>> }

RECURSIVE DetectTables(_)
DetectTables(n) ==
    IF n = 0 THEN {<<>>}
    ELSE LET shorter == DetectTables(n - 1)
         IN shorter \cup
            {Append(t, [tab_url |-> tab, referrer |-> ref, target_path |-> <<>>,
                        start_time |-> 2 * (Len(t) + 1)]) :
                 t \in {s \in shorter : Len(s) = n - 1},
                 tab \in DetectUrls, ref \in DetectUrls}

DetectInit ==
    /\ fs = [dirs |-> {}, files |-> <<>>]
    /\ undo_stack = <<>>
    /\ tags = <<>>
    /\ last = NoCall
    /\ nPush = 0
    /\ nPairs = 0
    /\ nExt = 0
    /\ config = NoConfig
    /\ disk = NoDisk
    /\ out = NoOut
    /\ ui = NoUi
    /\ \E downloads \in DetectTables(MaxDownloads) : history = History(downloads, <<>>)

\* PlatformDetector().detect_from_history(cursor)
Detect ==
    /\ out.op = "none"
    /\ out' = [op |-> "detect_from_history", detected |-> detect_from_history(history)]
    /\ UNCHANGED <<history, config, disk, ui>>
    /\ UNCHANGED fileVars

DetectNext == Detect

DetectSpec == DetectInit /\ [][DetectNext]_vars

\* the download records that involve a domain: those whose tab URL or referrer
\* is on it
RecordsOf(domain) ==
    {i \in 1..Len(history.downloads) :
        \/ Netloc(history.downloads[i].tab_url) = domain
        \/ Netloc(history.downloads[i].referrer) = domain}

\* C20 (Detection ranking): the detected platforms are in non-increasing order
\* of download_count, and of two detected domains the one that more download
\* records involve comes first.
C20_DetectionRanking ==
    out.op = "detect_from_history" =>
        \A i, j \in 1..Len(out.detected) :
            /\ i < j => out.detected[i].download_count >= out.detected[j].download_count
            /\ Cardinality(RecordsOf(out.detected[i].domain))
                  > Cardinality(RecordsOf(out.detected[j].domain)) => i < j


\* the URLs observed for a domain: the tab URLs and referrers on it
ObservedUrls(domain) ==
    {u \in {history.downloads[i].tab_url : i \in 1..Len(history.downloads)}
           \cup {history.downloads[i].referrer : i \in 1..Len(history.downloads)} :
        Netloc(u) = domain}

\* the adapters, by their place in ALL_ADAPTERS, with a fingerprint that is a
\* substring of a domain or of a URL observed for it
Fingerprinted(domain) ==
    {a \in 1..Len(ALL_ADAPTERS) :
        \E f \in 1..Len(url_fingerprints(ALL_ADAPTERS[a])) :
            \/ SubstringOf(url_fingerprints(ALL_ADAPTERS[a])[f], domain)
            \/ \E u \in ObservedUrls(domain) :
                  SubstringOf(url_fingerprints(ALL_ADAPTERS[a])[f], u)}

\* C21 (Detection tie-break): no domain is detected twice; a detected domain
\* has an adapter with a fingerprint in the domain or in a URL observed for it,
\* and its platform type is that of the first such adapter in the order Canvas,
\* Moodle, Blackboard, Insendi.
C21_DetectionTieBreak ==
    out.op = "detect_from_history" =>
        /\ \A i, j \in 1..Len(out.detected) :
              out.detected[i].domain = out.detected[j].domain => i = j
        /\ \A i \in 1..Len(out.detected) :
              LET matching == Fingerprinted(out.detected[i].domain)
              IN /\ matching # {}
                 /\ \A a \in matching :
                       (\A b \in matching : a <= b)
                           => /\ out.detected[i].adapter = ALL_ADAPTERS[a]
                              /\ out.detected[i].platform_type = LowerPiece(ALL_ADAPTERS[a])

\* a detected domain for which two adapters have a fingerprint, next to an
\* observed domain that is not detected
C21_Witness ==
    /\ out.op = "detect_from_history"
    /\ \E i \in 1..Len(out.detected) :
          Cardinality(Fingerprinted(out.detected[i].domain)) >= 2
    /\ \E k \in 1..Len(history.downloads) :
          /\ Netloc(history.downloads[k].tab_url) # <<>>
          /\ \A i \in 1..Len(out.detected) :
                out.detected[i].domain # Netloc(history.downloads[k].tab_url)


----------------------------------------------------------------------------
\* The windows (src/gui/main_window.py: MainWindow on Qt; src/app.py:
\* ImperialClassifier on Textual).  Both keep the list of classified files of the
\* last scan, run scan_downloads on a worker thread, and call FileOps on the
\* interactive thread.  `ui` is a record
\*   kind             "qt" or "textual"
\*   classified_files self.classified_files
\*   tree             the files the tree was populated with (what is displayed)
\*   synced           the tree holds the very objects of classified_files
\*   running          the scan workers that are executing, each in phase
\*                    "started" (nothing read yet) or "queried" (scan_downloads
\*                    has read the history and the disk; result: what it returns)
\*   queue            events posted to the interactive thread and not yet handled
\*   dialog           the new courses of the open NewCourseDialog (<<>>: none)
\*   pending          ImperialClassifier._pending_new_courses
\*   changes          number of moves and undos that changed the filesystem
\*   files_seen       `changes` when the scan behind classified_files read the disk
\*   shown            `changes` when the scan behind the tree read the disk
\*   errors           number of scans that ended in an exception
\*   nReq             number of user requests so far
\*   handler          the handler that ran last

Kinds == {"qt", "textual"}

MaxRequests == 2

DestinationRoot == <<Documents>>

\* the disk as the scan sees it when FileOps works on the filesystem f
DiskOf(f) == [paths |-> f.dirs \cup DOMAIN f.files, links |-> NoLinks,
              loop_error |-> "RuntimeError"]

\* Downloads holds A.pdf (downloaded from course 7, whose page title is in the
\* history) and b.pdf (from course 8, whose page title is a placeholder)
WindowFs ==
    [dirs |-> {<<Downloads>>},
     files |-> (<<Downloads, FileA>> :> 1) @@ (<<Downloads, FileB>> :> 2)]

WindowHistory ==
    History(<< [tab_url |-> Url(DomCanvas, Course7Files), referrer |-> <<>>,
                target_path |-> <<Downloads, FileA>>, start_time |-> 2],
               [tab_url |-> Url(DomCdn, Opaque), referrer |-> Url(DomCanvas, Course8),
                target_path |-> <<Downloads, FileB>>, start_time |-> 4] >>,
            << <<Url(DomCanvas, Course7), 1>>, <<Url(DomCanvas, Course8), 3>> >>)

WindowConfig(courses) ==
    Config(<<Downloads>>, <<Platform(DomCanvas, "canvas")>>, courses, "")
      @@ [destination_root |-> DestinationRoot]

StartedWorker == [phase |-> "started", result |-> NoOut, seen |-> 0]

\* MainWindow._run_scan: nothing while the worker is running, else a new
\* ScanWorker is started.
RunScanQt(u) ==
    IF u.running # <<>> THEN u
    ELSE [u EXCEPT !.running = Append(@, StartedWorker)]

\* ImperialClassifier.run_scan, decorated @work(thread=True): every call starts
\* a new thread worker.
RunScanTextual(u) == [u EXCEPT !.running = Append(@, StartedWorker)]

\* self._run_scan() / self.run_scan()
RunScan(u) == IF u.kind = "qt" THEN RunScanQt(u) ELSE RunScanTextual(u)

\* the window after construction: nothing classified, the startup scan started
WindowInit ==
    /\ fs = WindowFs
    /\ undo_stack = <<>>
    /\ tags = <<>>
    /\ last = NoCall
    /\ nPush = 0
    /\ nPairs = 0
    /\ nExt = 0
    /\ history = WindowHistory
    /\ \E courses \in CourseMaps : config = WindowConfig(courses)
    /\ disk = NoDisk
    /\ out = NoOut
    /\ \E kind \in Kinds :
          ui = RunScan([kind |-> kind, classified_files |-> <<>>, tree |-> <<>>,
                        synced |-> TRUE, running |-> <<>>, queue |-> <<>>,
                        dialog |-> <<>>, pending |-> <<>>, changes |-> 0,
                        files_seen |-> 0, shown |-> 0, errors |-> 0, nReq |-> 0,
                        handler |-> "__init__"])

\* a user request is possible: no modal dialog is open
Interactive == ui.dialog = <<>> /\ ui.nReq < MaxRequests

Requested(u, handler) == [u EXCEPT !.nReq = @ + 1, !.handler = handler]

\* the Scan button, the Ctrl+R action
ScanRequest ==
    /\ Interactive
    /\ ui' = RunScan(Requested(ui, "scan"))
    /\ UNCHANGED <<history, config, disk, out>>
    /\ UNCHANGED fileVars

\* ScanWorker.run / the thread of run_scan reaches the end of scan_downloads'
\* reading: the history copy and the existence checks on the disk
WorkerQuery(i, copy_ok) ==
    /\ i \in 1..Len(ui.running)
    /\ ui.running[i].phase = "started"
    /\ ui' = [ui EXCEPT !.running[i] =
                 [phase |-> "queried",
                  result |-> ScanDownloadsResult(history, config, DiskOf(fs),
                                                 copy_ok, NoReply),
                  seen |-> ui.changes],
              !.handler = "scan_downloads"]
    /\ UNCHANGED <<history, config, disk, out>>
    /\ UNCHANGED fileVars

\* ScanWorker.run ends: finished or error is emitted (queued to the window's
\* thread) and the thread is no longer running
FinishQt(u, w, rest) ==
    [u EXCEPT !.running = rest,
              !.queue = Append(@, [signal |-> IF w.result.raised = NoErr
                                              THEN "finished" ELSE "error",
                                   files |-> w.result.results,
                                   new_courses |-> w.result.new_courses,
                                   seen |-> w.seen]),
              !.handler = "ScanWorker.run"]

\* the thread of run_scan ends: it assigns self.classified_files and
\* self._pending_new_courses itself and posts _after_scan; an exception of
\* scan_downloads ends the worker before any of that
FinishTextual(u, w, rest) ==
    IF w.result.raised # NoErr
    THEN [u EXCEPT !.running = rest, !.errors = @ + 1, !.handler = "run_scan"]
    ELSE [u EXCEPT !.running = rest,
                   !.classified_files = w.result.results,
                   !.files_seen = w.seen,
                   !.synced = FALSE,
                   !.pending = w.result.new_courses,
                   !.queue = Append(@, [signal |-> "after_scan", files |-> <<>>,
                                        new_courses |-> <<>>, seen |-> w.seen]),
                   !.handler = "run_scan"]

WorkerFinish(i) ==
    /\ i \in 1..Len(ui.running)
    /\ ui.running[i].phase = "queried"
    /\ ui' = IF ui.kind = "qt"
             THEN FinishQt(ui, ui.running[i], RemoveAt(ui.running, i))
             ELSE FinishTextual(ui, ui.running[i], RemoveAt(ui.running, i))
    /\ UNCHANGED <<history, config, disk, out>>
    /\ UNCHANGED fileVars

\* MainWindow._on_scan_finished up to the opening of the dialog
on_scan_finished(u, msg) ==
    [u EXCEPT !.classified_files = msg.files, !.tree = msg.files,
              !.synced = TRUE, !.files_seen = msg.seen, !.shown = msg.seen,
              !.dialog = msg.new_courses, !.handler = "_on_scan_finished"]

\* MainWindow._on_scan_error
on_scan_error(u, msg) == [u EXCEPT !.errors = @ + 1, !.handler = "_on_scan_error"]

\* ImperialClassifier._after_scan: _rebuild_tree, then the dialog for the
\* pending new courses
after_scan(u) ==
    [u EXCEPT !.tree = u.classified_files, !.synced = TRUE, !.shown = u.files_seen,
              !.dialog = u.pending, !.pending = <<>>, !.handler = "_after_scan"]

\* the interactive thread handles the oldest posted event
Deliver ==
    /\ ui.queue # <<>>
    /\ ui.dialog = <<>>
    /\ ui' = LET u == [ui EXCEPT !.queue = Tail(@)]
                 msg == Head(ui.queue)
             IN IF msg.signal = "finished" THEN on_scan_finished(u, msg)
                ELSE IF msg.signal = "error" THEN on_scan_error(u, msg)
                ELSE after_scan(u)
    /\ UNCHANGED <<history, config, disk, out>>
    /\ UNCHANGED fileVars

\* what the user leaves in the NewCourseDialog: Skip (or every name blanked),
\* Save with the suggested names, Save with every name edited
EditedName == <<"My Course">>

SuggestedName(new_courses, c) ==
    new_courses[CHOOSE i \in 1..Len(new_courses) : new_courses[i].course_id = c].suggested_name

DialogAnswers(new_courses) ==
    LET ids == {new_courses[i].course_id : i \in 1..Len(new_courses)}
    IN { NoCourses,
         [c \in ids |-> SuggestedName(new_courses, c)],
         [c \in ids |-> EditedName] }

\* the loop `for cf in self.classified_files: if cf.course_id in mapping: ...`
Renamed(files, mapping) ==
    [i \in 1..Len(files) |->
        IF files[i].course_id \in DOMAIN mapping
        THEN [files[i] EXCEPT !.course_name = mapping[files[i].course_id]]
        ELSE files[i]]

\* the end of _show_new_course_dialog (on_result in the Textual window): with a
\* mapping, the configuration is updated and saved, the classified files of
\* the mapped courses take the confirmed names and the tree is rebuilt
DialogAnswer(mapping) ==
    /\ ui.dialog # <<>>
    /\ mapping \in DialogAnswers(ui.dialog)
    /\ IF mapping = NoCourses
       THEN /\ ui' = [ui EXCEPT !.dialog = <<>>, !.handler = "skip_new_courses"]
            /\ UNCHANGED config
       ELSE /\ config' = [config EXCEPT !.courses = mapping @@ @]
            /\ ui' = [ui EXCEPT !.dialog = <<>>,
                                !.classified_files = Renamed(@, mapping),
                                !.tree = Renamed(ui.classified_files, mapping),
                                !.synced = TRUE,
                                !.shown = ui.files_seen,
                                !.handler = "save_new_courses"]
    /\ UNCHANGED <<history, disk, out>>
    /\ UNCHANGED fileVars

\* dest_root / cf.course_name / cf.sub_type, or dest_root / cf.course_name
DestDir(cfg, cf) ==
    IF cf.sub_type # "" THEN cfg.destination_root \o <<cf.course_name, <<cf.sub_type>> >>
    ELSE Append(cfg.destination_root, cf.course_name)

RECURSIVE ToMove(_, _, _, _)
\* the (path, destination directory) pairs of the checked files from the i-th on
ToMove(cfg, tree, checked, i) ==
    IF i > Len(tree) THEN <<>>
    ELSE (IF i \in checked THEN << <<tree[i].path, DestDir(cfg, tree[i])>> >> ELSE <<>>)
         \o ToMove(cfg, tree, checked, i + 1)

\* the window after a FileOps call that left the filesystem f: the rescan is
\* requested unless the call raised
AfterFileOps(u, r, handler) ==
    LET v == [Requested(u, handler) EXCEPT !.changes = IF r.fs # fs THEN @ + 1 ELSE @]
    IN IF r.raised # NoErr THEN v ELSE RunScan(v)

\* file_ops.move_files(to_move, on_conflict="skip") for the files of `checked`
MoveChecked(checked) ==
    MoveFiles(fs, undo_stack, ToMove(config, ui.tree, checked, 1), "skip")

\* _move_selected / on_move with the files of `checked` ticked
MoveSelected(checked) ==
    /\ Interactive
    /\ checked \subseteq 1..Len(ui.tree)
    /\ fs' = IF checked = {} THEN fs ELSE MoveChecked(checked).fs
    /\ undo_stack' = IF checked = {} THEN undo_stack ELSE MoveChecked(checked).stack
    /\ ui' = IF checked = {} THEN Requested(ui, "move")
             ELSE AfterFileOps(ui, MoveChecked(checked), "move")
    /\ UNCHANGED <<tags, last, nPush, nPairs, nExt>>
    /\ UNCHANGED <<history, config, disk, out>>

\* _undo / _do_undo
Undo ==
    /\ Interactive
    /\ fs' = UndoLast(fs, undo_stack).fs
    /\ undo_stack' = UndoLast(fs, undo_stack).stack
    /\ ui' = IF ~can_undo THEN Requested(ui, "undo")
             ELSE AfterFileOps(ui, UndoLast(fs, undo_stack), "undo")
    /\ UNCHANGED <<tags, last, nPush, nPairs, nExt>>
    /\ UNCHANGED <<history, config, disk, out>>

\* _open_settings with the dialog saved (the values shown are saved as they
\* are): the configuration is loaded again and a scan is requested
SettingsSaved ==
    /\ Interactive
    /\ ui' = RunScan(Requested(ui, "settings"))
    /\ UNCHANGED <<history, config, disk, out>>
    /\ UNCHANGED fileVars

\* the sub-types the user picks in the model
PickedSubTypes == {"Lectures", ""}

\* the classified files after cf.sub_type = new_sub on the i-th object of the
\* tree, which is the i-th object of classified_files unless a worker has
\* replaced that list since the tree was built
Recategorized(u, i, new_sub) ==
    IF u.synced THEN [u.classified_files EXCEPT ![i].sub_type = new_sub]
    ELSE u.classified_files

\* _recategorize_item / the recategorize dialog, then _rebuild_tree from
\* self.classified_files
Recategorize(i, new_sub) ==
    /\ Interactive
    /\ i \in 1..Len(ui.tree)
    /\ new_sub # ui.tree[i].sub_type
    /\ ui' = [Requested(ui, "recategorize") EXCEPT
                 !.classified_files = Recategorized(ui, i, new_sub),
                 !.tree = Recategorized(ui, i, new_sub),
                 !.synced = TRUE,
                 !.shown = ui.files_seen]
    /\ UNCHANGED <<history, config, disk, out>>
    /\ UNCHANGED fileVars

WindowNext ==
    \/ ScanRequest
    \/ \E i \in 1..Len(ui.running), copy_ok \in BOOLEAN : WorkerQuery(i, copy_ok)
    \/ \E i \in 1..Len(ui.running) : WorkerFinish(i)
    \/ Deliver
    \/ \E mapping \in DialogAnswers(ui.dialog) : DialogAnswer(mapping)
    \/ \E checked \in SUBSET (1..Len(ui.tree)) : MoveSelected(checked)
    \/ Undo
    \/ SettingsSaved
    \/ \E i \in 1..Len(ui.tree), new_sub \in PickedSubTypes : Recategorize(i, new_sub)

WindowSpec == WindowInit /\ [][WindowNext]_vars

\* the scheduling: a worker thread that can run does run, the interactive
\* thread handles the events posted to it, and an open dialog is answered
WindowFairSpec ==
    /\ WindowSpec
    /\ WF_vars(\E i \in 1..Len(ui.running), copy_ok \in BOOLEAN : WorkerQuery(i, copy_ok))
    /\ WF_vars(\E i \in 1..Len(ui.running) : WorkerFinish(i))
    /\ WF_vars(Deliver)
    /\ WF_vars(\E mapping \in DialogAnswers(ui.dialog) : DialogAnswer(mapping))

----------------------------------------------------------------------------
\* C22: single scan in flight.  Whatever the user requests (Scan, Move, Undo,
\* Settings) and whenever, at most one scan worker is executing.
C22_SingleScanInFlight == Len(ui.running) <= 1

----------------------------------------------------------------------------
----------------------------------------------------------------------------
\* the file names of the scan's results: what scan_downloads hands to
\* classify_batch
ResultNames == [i \in 1..Len(out.results) |-> Name(out.results[i].path)]

AllOther(n) == [i \in 1..n |-> "Other"]

\* C24: classifier degradation.  Whatever the service replies (a failure, a
\* short, a long or a malformed answer), classify_batch returns one label per
\* file name, each of them a valid category; all of them are "Other" when the
\* call failed and when no credential is given; every classified file of a
\* scan carries a valid category.
C24_ClassifierDegradation ==
    out.op = "scan_downloads" /\ out.raised = NoErr =>
        /\ \A i \in 1..Len(out.results) : out.results[i].sub_type \in VALID_CATEGORIES
        /\ out.asked # <<>> =>
              /\ out.asked = ResultNames
              /\ Len(out.categories) = Len(out.asked)
              /\ \A i \in 1..Len(out.categories) :
                    /\ out.categories[i] \in VALID_CATEGORIES
                    /\ out.results[i].sub_type = out.categories[i]
              /\ ~out.reply.ok => out.categories = AllOther(Len(out.asked))
        /\ \A reply \in Replies :
              classify_batch(ResultNames, "", reply) = AllOther(Len(ResultNames))

\* two files were classified with an answer of one line: the first file has
\* the label of that line, the second is "Other"
C24_Witness ==
    /\ out.op = "scan_downloads" /\ out.raised = NoErr
    /\ Len(out.asked) = 2
    /\ out.reply.ok /\ Len(out.reply.lines) = 1
    /\ out.categories = <<"Lectures", "Other">>
    /\ out.results[1].sub_type = "Lectures"

----------------------------------------------------------------------------
\* a course id was resolved for the record a classified file comes from
WasResolved(cf) ==
    \E k \in SourceRows(cf) :
        Resolved(Examined[k]) # NoMatch /\ ResolvedId(Examined[k]) # None

\* the course ids on the classified files that were resolved and are not in
\* the configured mapping
NewIds ==
    {out.results[i].course_id :
        i \in {j \in 1..Len(out.results) :
                  /\ WasResolved(out.results[j])
                  /\ out.results[j].course_id \notin DOMAIN config.courses}}

\* the new courses name each new id once and nothing else
C25_Entries ==
    /\ {out.new_courses[n].course_id : n \in 1..Len(out.new_courses)} = NewIds
    /\ \A n, m \in 1..Len(out.new_courses) :
          out.new_courses[n].course_id = out.new_courses[m].course_id => n = m

\* the suggested name of a new course is the name discovered for its id, or
\* the fallback "New Course (<id>)" when nothing was discovered
C25_Suggested ==
    \A n \in 1..Len(out.new_courses) :
        \E c \in 1..Len(out.calls) :
            /\ out.calls[c].course_id = out.new_courses[n].course_id
            /\ out.new_courses[n].suggested_name =
                  IF out.calls[c].returned # <<>> THEN out.calls[c].returned
                  ELSE FallbackName(out.new_courses[n].course_id)

\* C25: new-course list.  The new courses of a scan name exactly the ids that
\* are on a classified file, were resolved and are not configured, each once;
\* the suggested name of each is the course name on the classified files with
\* that id, and is the discovered name or the fallback.
C25_NewCourseList ==
    Scanned =>
        /\ C25_Entries
        /\ C25_Suggested
        /\ \A n \in 1..Len(out.new_courses), i \in 1..Len(out.results) :
              out.results[i].course_id = out.new_courses[n].course_id =>
                  out.results[i].course_name = out.new_courses[n].suggested_name

----------------------------------------------------------------------------
\* the handlers that put the result of a scan in place of the classified files
Superseding == {"_on_scan_finished", "run_scan"}

\* C26: ClassifiedFile frame.  A step that does not put a new scan result in
\* place leaves every classified file as it is but for its sub_type: path,
\* course_id, course_name, download_url and platform are as the scan produced
\* them, also when the user confirms the new courses.
C26_ClassifiedFileFrame ==
    [][ ui'.handler \notin Superseding =>
          /\ Len(ui'.classified_files) = Len(ui.classified_files)
          /\ \A i \in 1..Len(ui.classified_files) :
                [ui'.classified_files[i] EXCEPT
                    !.sub_type = ui.classified_files[i].sub_type]
                  = ui.classified_files[i] ]_vars

----------------------------------------------------------------------------
\* the titled pages whose URL holds the id of the course asked for, no other id
PagesOfCourse ==
    {u \in 1..Len(history.urls) :
        /\ SubstringOf(out.domain, history.urls[u].url)
        /\ extract_course_id(out.adapter, history.urls[u].url) = out.course_id
        /\ history.urls[u].title # <<>>}

\* C27: exact course match in name discovery.  A name returned by
\* discover_course_name for a course id is the cleaned title of a page of that
\* very course, not of a course whose id begins with the id asked for.
C27_ExactCourseMatch ==
    out.op = "discover_course_name" /\ out.returned # <<>> =>
        \E u \in PagesOfCourse :
            CleanTitle(out.adapter, history.urls[u].title) = out.returned

----------------------------------------------------------------------------
\* C28: name consistency within a scan.  Two classified files of one scan with
\* the same course id have the same course name.
C28_NameConsistency ==
    Scanned =>
        \A i, j \in 1..Len(out.results) :
            out.results[i].course_id = out.results[j].course_id
                => out.results[i].course_name = out.results[j].course_name

----------------------------------------------------------------------------
\* One call of move_files with a batch of up to MaxChain pairs, so that a path
\* can be filled, vacated and filled again within the batch.

MaxChain == 3

ChainBatches == SeqsUpTo(Pairs, MaxChain)

BatchNext ==
    \E files \in ChainBatches, on_conflict \in Policies :
        last.op = "none" /\ MoveCall(files, on_conflict)

BatchSpec == Init /\ [][BatchNext]_vars

\* every file there was before the last call is there after it with its
\* content, at its path or at a destination of a record of the call
NothingLost ==
    \A p \in DOMAIN last.pre.files :
        \/ p \in DOMAIN fs.files /\ fs.files[p] = last.pre.files[p]
        \/ \E k \in 1..Len(last.success) :
              /\ last.success[k].destination \in DOMAIN fs.files
              /\ fs.files[last.success[k].destination] = last.pre.files[p]

\* C29: no data loss without overwrite.  After move_files under "skip" or
\* "rename", whatever the batch, every file that existed before the call exists
\* with its content at its original path or at a recorded destination, and no
\* two records of the result have the same destination.
C29_NoDataLoss ==
    last.op = "move" /\ last.on_conflict \in {"skip", "rename"} =>
        /\ NothingLost
        /\ \A i, j \in 1..Len(last.success) :
              i # j => last.success[i].destination # last.success[j].destination

\* C29 as amended: the same, except that two records of the result have the
\* same destination only when a record between them moved the file on from
\* that path.
C29_NoDataLossAmended ==
    last.op = "move" /\ last.on_conflict \in {"skip", "rename"} =>
        /\ NothingLost
        /\ \A i, j \in 1..Len(last.success) :
              i < j /\ last.success[i].destination = last.success[j].destination =>
                  \E k \in (i + 1)..(j - 1) :
                      last.success[k].original = last.success[i].destination

\* a batch under "rename" moved one file to B, back to A and to B again: the
\* first and the third record have the same destination, where the file is
C29_Witness ==
    /\ last.op = "move" /\ last.on_conflict = "rename"
    /\ Len(last.success) = 3
    /\ last.success[1].destination = last.success[3].destination
    /\ last.success[3].destination \in DOMAIN fs.files
    /\ fs.files[last.success[3].destination] = last.pre.files[last.success[1].original]

-----------------------------------------------------------------------------
\* C30: refresh after mutation.  After every move or undo that changed the
\* filesystem (the n-th such change), the window eventually displays the result
\* of a scan that read the downloads directory after that change, unless a scan
\* ended with an error.
C30_RefreshAfterMutation ==
    \A n \in 1..MaxRequests :
        (ui.changes = n) ~> (ui.shown >= n \/ ui.errors > 0)

====
